---- MODULE Spec2Model ----
(***************************************************************************)
(* Verification model of the CLIProxyAPI-Extended translation core.        *)
(*                                                                         *)
(*  Part I   - UnifiedStreamState / convertUnifiedEventsToChunks           *)
(*             (OpenAI / Cline target), driven by arbitrary IR events.     *)
(*  Part II  - the process-wide thought-signature cache, with concurrent   *)
(*             callers.                                                    *)
(*  Part III - the upstream-reader goroutine of ExecuteStream              *)
(*             (AntigravityExecutorV2).                                    *)
(*  Part IV  - ToResponsesAPIChunk on one ResponsesStreamState.            *)
(*  Part V   - the Kiro stream parser and the chunk parsers.               *)
(*  Part VI  - the Kiro request builder.                                   *)
(*  Part VII - helper functions of the translators, each applied to one    *)
(*             input.                                                      *)
(*  Part VIII- thought-signature injection into Antigravity requests, on   *)
(*             the cache of Part II.                                       *)
(*  Part IX  - the canonical-translator switch of sdk/translator.          *)
(*  Part X   - the legacy OpenAI-source converter of the executor package. *)
(*  Part XI  - the attempt / base-URL loop of ExecuteStream.               *)
(*                                                                         *)
(* Strings whose length or trimming matters are sequences of one-character *)
(* strings; the empty string is << >>.                                     *)
(***************************************************************************)
EXTENDS Integers, Sequences, FiniteSets, TLC

(***************************************************************************)
(* Bounds of the model.                                                    *)
(***************************************************************************)
\* total number of IR events processed on one UnifiedStreamState
MaxEvents == 3
\* largest number of IR events handed over in one converter call
MaxBatch == 2

(***************************************************************************)
(* Generic helpers.                                                        *)
(***************************************************************************)
EmptyStr == << >>

Range(s) == { s[i] : i \in 1..Len(s) }

RECURSIVE CountIf(_, _)
\* number of elements of sequence s that satisfy the predicate (as a set)
CountIf(s, good) ==
    IF s = << >> THEN 0
    ELSE (IF Head(s) \in good THEN 1 ELSE 0) + CountIf(Tail(s), good)

(***************************************************************************)
(* Part I.  IR events (ir.UnifiedEvent) and the OpenAI chunk builder.      *)
(***************************************************************************)
EventTypeToken         == "token"
EventTypeReasoning     == "reasoning"
EventTypeToolCall      == "tool_call"
EventTypeToolCallDelta == "tool_call_delta"
EventTypeImage         == "image"
EventTypeFinish        == "finish"
EventTypeError         == "error"

FinishReasonNone          == ""
FinishReasonStop          == "stop"
FinishReasonLength        == "length"
FinishReasonToolCalls     == "tool_calls"
FinishReasonContentFilter == "content_filter"
FinishReasonUnknown       == "unknown"

\* a nil *ir.ToolCall / nil *ir.Usage
NoToolCall == [nil |-> TRUE]
NoUsage    == [nil |-> TRUE]

\* upstream tool calls of one stream: call_id, Responses-API item_id, name
CallIDs   == {"call_a", "call_b"}
ItemIDOf  == [c \in CallIDs |-> IF c = "call_a" THEN "item_a" ELSE "item_b"]
NameOf    == [c \in CallIDs |-> IF c = "call_a" THEN "f" ELSE "g"]
\* upstream ToolCallIndex values (0 = parser leaves the field unset,
\* 2 = a Responses-API output_index behind a reasoning and a message item)
UpstreamIndices == {0, 2}

ToolCallRec(id, item, name) == [ID |-> id, ItemID |-> item, Name |-> name]

Event(type, content, reasoning, tc, idx, reason, usage, call) ==
    [Type |-> type, Content |-> content, Reasoning |-> reasoning,
     ToolCall |-> tc, ToolCallIndex |-> idx, FinishReason |-> reason,
     Usage |-> usage, call |-> call]

TokenEvents ==
    { Event(EventTypeToken, c, EmptyStr, NoToolCall, 0, FinishReasonNone, NoUsage, "")
        : c \in {"", "hi"} }
ReasoningEvents ==
    { Event(EventTypeReasoning, "", r, NoToolCall, 0, FinishReasonNone, NoUsage, "")
        : r \in {EmptyStr, <<"h", "m", "m", "m">>} }
ImageEvents ==
    { Event(EventTypeImage, "", EmptyStr, NoToolCall, 0, FinishReasonNone, NoUsage, "") }
\* first event of a tool call: carries call_id and name, with or without item_id
ToolCallEvents ==
    UNION { { Event(EventTypeToolCall, "", EmptyStr, ToolCallRec(c, item, NameOf[c]), i,
                    FinishReasonNone, NoUsage, c)
                : item \in {"", ItemIDOf[c]}, i \in UpstreamIndices } : c \in CallIDs }
\* argument fragments: Responses-API style (item_id only) or index only
ToolCallDeltaEvents ==
    UNION { { Event(EventTypeToolCallDelta, "", EmptyStr, ToolCallRec("", item, ""), i,
                    FinishReasonNone, NoUsage, c)
                : item \in {"", ItemIDOf[c]}, i \in UpstreamIndices } : c \in CallIDs }
FinishEvents ==
    { Event(EventTypeFinish, "", EmptyStr, NoToolCall, 0, r, u, "")
        : r \in {FinishReasonNone, FinishReasonStop, FinishReasonLength},
          u \in {NoUsage} }
ErrorEvents ==
    { Event(EventTypeError, "", EmptyStr, NoToolCall, 0, FinishReasonNone, NoUsage, "") }

\* the final "[DONE]" marker as ParseGeminiChunk / ParseAntigravityChunk return it
DoneEvent == Event(EventTypeFinish, "", EmptyStr, NoToolCall, 0, FinishReasonNone, NoUsage, "")

Events == TokenEvents \cup ReasoningEvents \cup ImageEvents \cup ToolCallEvents
            \cup ToolCallDeltaEvents \cup FinishEvents \cup ErrorEvents

\* ir.MapFinishReasonToOpenAI
MapFinishReasonToOpenAI(reason) ==
    CASE reason = FinishReasonLength        -> "length"
      [] reason = FinishReasonToolCalls     -> "tool_calls"
      [] reason = FinishReasonContentFilter -> "content_filter"
      [] OTHER                              -> "stop"

NoChunk == [kind |-> "none"]

Chunk(kind, index, id, name, reason, usage) ==
    [kind |-> kind, index |-> index, id |-> id, name |-> name,
     finish_reason |-> reason, usage |-> usage]

\* from_ir.buildToolCallDelta: the tool_calls[0] entry of the delta
buildToolCallDelta(event) ==
    [index |-> event.ToolCallIndex, id |-> event.ToolCall.ID, name |-> event.ToolCall.Name]

\* from_ir.ToOpenAIChunk / ToOpenAIChunkMeta (meta = nil).  Result: the chunk, or
\* NoChunk for a nil chunk, and err = TRUE for the "stream error" return.
ToOpenAIChunk(event, chunkIndex) ==
    CASE event.Type = EventTypeToken ->
            [err |-> FALSE, chunk |-> Chunk("content", -1, "", "", "", NoUsage)]
      [] event.Type = EventTypeReasoning ->
            [err |-> FALSE, chunk |-> Chunk("reasoning", -1, "", "", "", NoUsage)]
      [] event.Type \in {EventTypeToolCall, EventTypeToolCallDelta} ->
            IF event.ToolCall # NoToolCall
            THEN LET d == buildToolCallDelta(event)
                 IN  [err |-> FALSE,
                      chunk |-> Chunk("tool_calls", d.index, d.id, d.name, "", NoUsage)]
            ELSE [err |-> FALSE, chunk |-> Chunk("empty", -1, "", "", "", NoUsage)]
      [] event.Type = EventTypeImage ->
            [err |-> FALSE, chunk |-> Chunk("image", -1, "", "", "", NoUsage)]
      [] event.Type = EventTypeFinish ->
            [err |-> FALSE,
             chunk |-> Chunk("finish", -1, "", "",
                             MapFinishReasonToOpenAI(event.FinishReason), event.Usage)]
      [] event.Type = EventTypeError ->
            [err |-> TRUE, chunk |-> NoChunk]
      [] OTHER ->
            [err |-> FALSE, chunk |-> NoChunk]

(***************************************************************************)
(* Part I.  UnifiedStreamState and convertUnifiedEventsToChunks.           *)
(***************************************************************************)
\* NewAntigravityStreamState / NewOpenAIStreamState after EnsureInitialized
NewUnifiedStreamState ==
    [ReasoningCharsAccum |-> 0,
     ToolCallSentHeader  |-> {},
     HasContent          |-> FALSE,
     ToolCallIndex       |-> 0,
     FinishSent          |-> FALSE,
     ToolCallIDMap       |-> << >>,
     OutputIndexMap      |-> << >>]

\* step 1: the event carries visible content
SeesContent(event) ==
    event.Content # "" \/ event.Reasoning # EmptyStr \/ event.ToolCall # NoToolCall

\* step 1: reasoning characters accumulated for the usage estimate
AccumReasoning(st, event) ==
    IF event.Type = EventTypeReasoning /\ event.Reasoning # EmptyStr
    THEN st.ReasoningCharsAccum + Len(event.Reasoning)
    ELSE st.ReasoningCharsAccum

\* variant of step 2 that looks an item_id up but registers none
ResolveToolCallID_NoRegister(st, event) ==
    IF event.ToolCall = NoToolCall
    THEN [map |-> st.ToolCallIDMap, tc |-> event.ToolCall]
    ELSE LET tc == event.ToolCall IN
         IF tc.ItemID # "" /\ tc.ID = "" /\ tc.ItemID \in DOMAIN st.ToolCallIDMap
         THEN [map |-> st.ToolCallIDMap,
               tc  |-> [tc EXCEPT !.ID = st.ToolCallIDMap[tc.ItemID]]]
         ELSE [map |-> st.ToolCallIDMap, tc |-> tc]

\* step 2: item_id -> call_id registration and lookup; result: the map and the
\* event's tool call with its ID resolved
ResolveToolCallID(st, event) ==
    IF event.ToolCall = NoToolCall
    THEN [map |-> st.ToolCallIDMap, tc |-> event.ToolCall]
    ELSE LET tc == event.ToolCall IN
         IF event.Type = EventTypeToolCall /\ tc.ItemID # "" /\ tc.ID # ""
         THEN [map |-> (tc.ItemID :> tc.ID) @@ st.ToolCallIDMap, tc |-> tc]
         ELSE IF tc.ItemID # "" /\ tc.ID = "" /\ tc.ItemID \in DOMAIN st.ToolCallIDMap
              THEN [map |-> st.ToolCallIDMap,
                    tc  |-> [tc EXCEPT !.ID = st.ToolCallIDMap[tc.ItemID]]]
              ELSE [map |-> st.ToolCallIDMap, tc |-> tc]

\* step 3: linearise the upstream output index
LineariseIndex(st, event) ==
    LET outputIdx == event.ToolCallIndex IN
    IF event.Type \in {EventTypeToolCall, EventTypeToolCallDelta}
    THEN IF outputIdx \in DOMAIN st.OutputIndexMap
         THEN [effectiveIdx |-> st.OutputIndexMap[outputIdx],
               map |-> st.OutputIndexMap, next |-> st.ToolCallIndex]
         ELSE IF event.Type = EventTypeToolCall
              THEN [effectiveIdx |-> st.ToolCallIndex,
                    map |-> (outputIdx :> st.ToolCallIndex) @@ st.OutputIndexMap,
                    next |-> st.ToolCallIndex + 1]
              ELSE [effectiveIdx |-> outputIdx,
                    map |-> st.OutputIndexMap, next |-> st.ToolCallIndex]
    ELSE [effectiveIdx |-> outputIdx, map |-> st.OutputIndexMap, next |-> st.ToolCallIndex]

\* variant without the duplicate-finish check
FinishSuppressed_NoDuplicateCheck(st) ==
    ~st.HasContent

\* variant without the empty-STOP check
FinishSuppressed_NoContentCheck(st) ==
    st.FinishSent

\* step 4: a Finish event is dropped (duplicate finish / empty STOP prevention)
FinishSuppressed(st) ==
    st.FinishSent \/ ~st.HasContent

\* variant that leaves the upstream reason alone
FixFinishReason_NoRewrite(st, reason) ==
    reason

\* step 4: finish_reason fix for tool calls
FixFinishReason(st, reason) ==
    IF st.ToolCallIndex > 0 /\ reason = FinishReasonStop
    THEN FinishReasonToolCalls
    ELSE reason

\* step 4: synthesize reasoning usage if missing
SynthUsage(st, usage) ==
    IF st.ReasoningCharsAccum > 0
    THEN LET u == IF usage = NoUsage THEN [ThoughtsTokenCount |-> 0] ELSE usage IN
         IF u.ThoughtsTokenCount = 0
         THEN [u EXCEPT !.ThoughtsTokenCount = (st.ReasoningCharsAccum + 2) \div 3]
         ELSE u
    ELSE usage

\* step 5: header clean-up; result: the tool call to emit and the header set
StripHeader(st, type, tc, effectiveIdx) ==
    IF type = EventTypeToolCallDelta
    THEN [tc |-> [tc EXCEPT !.ID = "", !.Name = ""], sent |-> st.ToolCallSentHeader]
    ELSE IF type = EventTypeToolCall
         THEN IF effectiveIdx \in st.ToolCallSentHeader
              THEN [tc |-> [tc EXCEPT !.ID = "", !.Name = ""], sent |-> st.ToolCallSentHeader]
              ELSE [tc |-> tc, sent |-> st.ToolCallSentHeader \cup {effectiveIdx}]
         ELSE [tc |-> tc, sent |-> st.ToolCallSentHeader]

\* one iteration of the "openai", "cline" loop of convertUnifiedEventsToChunks.
\* Result: the state after the event, the chunk appended (or NoChunk), the tool
\* call as step 2 resolved it, and err = TRUE when the function returns (nil, err)
\* at this event.
ProcessEvent(st, event) ==
    LET st1 == [st EXCEPT !.HasContent = st.HasContent \/ SeesContent(event),
                          !.ReasoningCharsAccum = AccumReasoning(st, event)]
        res == ResolveToolCallID(st1, event)
        st2 == [st1 EXCEPT !.ToolCallIDMap = res.map]
        lin == LineariseIndex(st2, event)
        st3 == [st2 EXCEPT !.OutputIndexMap = lin.map, !.ToolCallIndex = lin.next]
    IN  IF event.Type = EventTypeFinish /\ FinishSuppressed(st3)
        THEN [st |-> st3, chunk |-> NoChunk, resolved |-> res.tc, err |-> FALSE]
        ELSE LET st4 == IF event.Type = EventTypeFinish
                        THEN [st3 EXCEPT !.FinishSent = TRUE] ELSE st3
                 ev4 == IF event.Type = EventTypeFinish
                        THEN [event EXCEPT !.FinishReason = FixFinishReason(st4, event.FinishReason),
                                           !.Usage = SynthUsage(st4, event.Usage)]
                        ELSE event
                 hdr == StripHeader(st4, event.Type, res.tc, lin.effectiveIdx)
                 st5 == [st4 EXCEPT !.ToolCallSentHeader = hdr.sent]
                 ev5 == [ev4 EXCEPT !.ToolCall = hdr.tc]
                 r   == ToOpenAIChunk(ev5, lin.effectiveIdx)
             IN  [st |-> st5, chunk |-> r.chunk, resolved |-> res.tc, err |-> r.err]

RECURSIVE ConvertFrom(_, _, _, _)
\* the loop over events; pos is the stream position of the event before Head(events).
\* Every appended chunk is logged with the position of, and the event it came from,
\* and with the tool call as step 2 resolved it.
ConvertFrom(st, events, pos, chunks) ==
    IF events = << >> THEN [st |-> st, chunks |-> chunks, err |-> FALSE]
    ELSE \* r, the outcome of the iteration, is evaluated once
         CHOOSE out \in
           { IF r.err THEN [st |-> r.st, chunks |-> << >>, err |-> TRUE]
             ELSE ConvertFrom(r.st, Tail(events), pos + 1,
                 IF r.chunk = NoChunk THEN chunks
                 ELSE Append(chunks, [chunk |-> r.chunk, pos |-> pos + 1, event |-> Head(events),
                                      resolved |-> r.resolved]))
             : r \in {ProcessEvent(st, Head(events))} } : TRUE

\* convertUnifiedEventsToChunks(events, "openai"|"cline", model, messageID, state)
convertUnifiedEventsToChunks(st, events, pos) ==
    ConvertFrom(st, events, pos, << >>)

(***************************************************************************)
(* Part I.  State of one stream and its operations.                        *)
(***************************************************************************)
VARIABLES
    state,      \* the *UnifiedStreamState of the stream
    emitted,    \* chunks returned by the converter so far, in order (logged
                \* with the stream position and the event they came from)
    history,    \* IR events the converter loop has processed so far, in order
    phase,      \* "open" | "ended" (finalised with [DONE]) | "failed" (a call returned an error)
    okLen       \* number of events of history handled by calls that returned no error

streamVars == <<state, emitted, history, phase, okLen>>

StreamInit ==
    /\ state = NewUnifiedStreamState
    /\ emitted = << >>
    /\ history = << >>
    /\ phase = "open"
    /\ okLen = 0

\* non-empty event lists of one converter call
Batches == UNION { [1..n -> Events] : n \in 1..MaxBatch }

RECURSIVE ProcessedPrefix(_)
\* the events of a call that the loop reaches: all of them, or those up to and
\* including the first one on which ToOpenAIChunk fails
ProcessedPrefix(events) ==
    IF events = << >> THEN << >>
    ELSE IF Head(events).Type = EventTypeError THEN <<Head(events)>>
         ELSE <<Head(events)>> \o ProcessedPrefix(Tail(events))

\* TranslateResponseStreamAuto / Translate*ResponseStream: one upstream chunk has
\* been parsed into events and is converted on the stream's state.  An error
\* return ends the stream (ExecuteStream: errConv -> error chunk, return).
TranslateChunk(events) ==
    /\ phase = "open"
    /\ Len(history) + Len(events) <= MaxEvents
    /\ LET r == convertUnifiedEventsToChunks(state, events, Len(history)) IN
        /\ state' = r.st
        /\ emitted' = emitted \o r.chunks
        /\ history' = history \o ProcessedPrefix(events)
        /\ phase' = IF r.err THEN "failed" ELSE "open"
        /\ okLen' = IF r.err THEN okLen ELSE Len(history) + Len(events)

\* the upstream chunk is not valid JSON: the parser returns an error before any
\* event is converted, and the stream ends with that error
TranslateParseError ==
    /\ phase = "open"
    /\ phase' = "failed"
    /\ UNCHANGED <<state, emitted, history, okLen>>

\* ExecuteStream "Finalize stream": the literal [DONE] is translated on the same
\* state after the last upstream line
FinalizeStream ==
    /\ phase = "open"
    /\ LET r == convertUnifiedEventsToChunks(state, <<DoneEvent>>, Len(history)) IN
        /\ state' = r.st
        /\ emitted' = emitted \o r.chunks
        /\ history' = Append(history, DoneEvent)
        /\ phase' = "ended"
        /\ okLen' = Len(history) + 1

StreamNext ==
    \/ \E events \in Batches : TranslateChunk(events)
    \/ TranslateParseError
    \/ FinalizeStream

(***************************************************************************)
(* Part II.  The thought-signature cache (package cache).                  *)
(* Time is counted in hours.  ClearSessionThoughtSignatureCache is not     *)
(* part of the model: no caller of it is in the program's request path.    *)
(***************************************************************************)
\* callers' operations begun in one run of the cache model
MaxOps == 4
\* last hour of the clock
MaxTime == 3

thoughtSignatureTTL == 2
minThoughtSignatureLength == 50
skipThoughtSignatureLiteral ==
    <<"s", "k", "i", "p", "_", "t", "h", "o", "u", "g", "h", "t", "_",
      "s", "i", "g", "n", "a", "t", "u", "r", "e", "_", "v", "a", "l",
      "i", "d", "a", "t", "o", "r">>

\* unicode.IsSpace, for the characters of the model
IsSpace(c) == c \in {" ", "\t"}

RECURSIVE TrimLeft(_)
TrimLeft(s) ==
    IF s # << >> /\ IsSpace(Head(s)) THEN TrimLeft(Tail(s)) ELSE s

RECURSIVE TrimRight(_)
TrimRight(s) ==
    IF s # << >> /\ IsSpace(s[Len(s)]) THEN TrimRight(SubSeq(s, 1, Len(s) - 1)) ELSE s

\* strings.TrimSpace
TrimSpace(s) == TrimRight(TrimLeft(s))

Repeat(c, n) == [i \in 1..n |-> c]
Pad(s) == <<" ">> \o s \o <<"\t">>

\* signatures that callers pass: empty, one character too short under its
\* padding, of the minimal length, the sentinel, the padded sentinel
SignatureInputs ==
    { EmptyStr,
      Pad(Repeat("a", minThoughtSignatureLength - 1)),
      Repeat("a", minThoughtSignatureLength),
      skipThoughtSignatureLiteral,
      Pad(skipThoughtSignatureLiteral) }

\* session ids that callers pass
SessionInputs == { EmptyStr, <<"s", "1">>, <<" ", "s", "1", " ">> }

\* goroutines that use the cache
Procs == {"g1", "g2"}

NoEntry == [absent |-> TRUE]

\* variant of CacheAccepts without the length guard
CacheAccepts_NoLengthCheck(sessionID, signature) ==
    ~(sessionID = EmptyStr \/ signature = EmptyStr)

\* CacheSessionThoughtSignature, guards on the trimmed arguments
CacheAccepts(sessionID, signature) ==
    /\ ~(sessionID = EmptyStr \/ signature = EmptyStr)
    /\ ~(signature # skipThoughtSignatureLiteral /\ Len(signature) < minThoughtSignatureLength)

\* the entry CacheSessionThoughtSignature stores at time t
NewEntry(signature, t) ==
    [signature |-> signature, expiresAt |-> t + thoughtSignatureTTL]

\* variant of Expired that lets an entry live one hour longer
Expired_OneHourLate(t, entry) == t > entry.expiresAt + 1

\* GetSessionThoughtSignature: time.Now().After(entry.expiresAt)
Expired(t, entry) == t > entry.expiresAt

\* bySession[sessionID] = thoughtSignatureEntry{signature, time.Now().Add(TTL)}
StoreEntry(f, k, signature, t) == (k :> NewEntry(signature, t)) @@ f

\* delete(bySession, sessionID)
MapDelete(f, k) == [x \in DOMAIN f \ {k} |-> f[x]]

VARIABLES
    bySession,  \* globalThoughtSignatureCache.bySession
    now,        \* the wall clock (time.Now()), in hours
    pc,         \* per goroutine: where it is in its current call
    local,      \* per goroutine: arguments, locals and result of its current call
    ops,        \* number of calls begun
    lastWrite   \* per session: number, signature and time of the completed stores

cacheVars == <<bySession, now, pc, local, ops, lastWrite>>

SessionKeys == { TrimSpace(sid) : sid \in SessionInputs } \ {EmptyStr}

IdleLocal ==
    [sessionID |-> EmptyStr, raw |-> EmptyStr, signature |-> EmptyStr,
     entry |-> NoEntry, ret |-> EmptyStr, stored |-> FALSE,
     issuedAt |-> 0, returnedAt |-> 0, seqAtIssue |-> 0]

CacheInit ==
    /\ bySession = << >>
    /\ now = 0
    /\ pc = [p \in Procs |-> "idle"]
    /\ local = [p \in Procs |-> IdleLocal]
    /\ ops = 0
    /\ lastWrite = [k \in SessionKeys |-> [seq |-> 0, signature |-> EmptyStr, at |-> 0]]

CanCall(p) == pc[p] \in {"idle", "cache_done", "get_done"} /\ ops < MaxOps

\* CacheSessionThoughtSignature up to the lock: trim, reject
CacheCall(p, sid, sig) ==
    /\ CanCall(p)
    /\ ops' = ops + 1
    /\ LET sessionID == TrimSpace(sid)
           signature == TrimSpace(sig)
       IN  /\ local' = [local EXCEPT ![p] =
                 [IdleLocal EXCEPT !.sessionID = sessionID, !.raw = sig,
                                   !.signature = signature, !.issuedAt = now]]
           /\ pc' = [pc EXCEPT ![p] =
                 IF CacheAccepts(sessionID, signature) THEN "cache_lock" ELSE "cache_done"]
    /\ UNCHANGED <<bySession, now, lastWrite>>

\* CacheSessionThoughtSignature: mu.Lock(); bySession[sessionID] = entry; mu.Unlock()
CacheStore(p) ==
    /\ pc[p] = "cache_lock"
    /\ LET k == local[p].sessionID IN
       /\ bySession' = StoreEntry(bySession, k, local[p].signature, now)
       /\ lastWrite' = [lastWrite EXCEPT ![k] =
                [seq |-> @.seq + 1, signature |-> local[p].signature, at |-> now]]
    /\ local' = [local EXCEPT ![p].stored = TRUE, ![p].returnedAt = now]
    /\ pc' = [pc EXCEPT ![p] = "cache_done"]
    /\ UNCHANGED <<now, ops>>

\* GetSessionThoughtSignature up to the read lock: trim, empty id returns ""
GetCall(p, sid) ==
    /\ CanCall(p)
    /\ ops' = ops + 1
    /\ LET sessionID == TrimSpace(sid) IN
       /\ local' = [local EXCEPT ![p] =
             [IdleLocal EXCEPT !.sessionID = sessionID, !.issuedAt = now, !.returnedAt = now,
                               !.seqAtIssue = IF sessionID = EmptyStr THEN 0
                                              ELSE lastWrite[sessionID].seq]]
       /\ pc' = [pc EXCEPT ![p] = IF sessionID = EmptyStr THEN "get_done" ELSE "get_rlock"]
    /\ UNCHANGED <<bySession, now, lastWrite>>

\* GetSessionThoughtSignature: mu.RLock(); entry, ok := bySession[sessionID]; mu.RUnlock()
GetRead(p) ==
    /\ pc[p] = "get_rlock"
    /\ local' = [local EXCEPT ![p].entry =
            IF local[p].sessionID \in DOMAIN bySession
            THEN bySession[local[p].sessionID] ELSE NoEntry]
    /\ pc' = [pc EXCEPT ![p] = "get_check"]
    /\ UNCHANGED <<bySession, now, ops, lastWrite>>

\* GetSessionThoughtSignature: if !ok return ""; if expired go on to delete;
\* else return entry.signature
GetCheck(p) ==
    /\ pc[p] = "get_check"
    /\ IF local[p].entry = NoEntry
       THEN /\ local' = [local EXCEPT ![p].ret = EmptyStr, ![p].returnedAt = now]
            /\ pc' = [pc EXCEPT ![p] = "get_done"]
       ELSE IF Expired(now, local[p].entry)
            THEN /\ pc' = [pc EXCEPT ![p] = "get_delete"]
                 /\ UNCHANGED local
            ELSE /\ local' = [local EXCEPT ![p].ret = local[p].entry.signature,
                                             ![p].returnedAt = now]
                 /\ pc' = [pc EXCEPT ![p] = "get_done"]
    /\ UNCHANGED <<bySession, now, ops, lastWrite>>

\* GetSessionThoughtSignature: mu.Lock(); delete(bySession, sessionID); mu.Unlock(); return ""
GetDelete(p) ==
    /\ pc[p] = "get_delete"
    /\ bySession' = MapDelete(bySession, local[p].sessionID)
    /\ local' = [local EXCEPT ![p].ret = EmptyStr, ![p].returnedAt = now]
    /\ pc' = [pc EXCEPT ![p] = "get_done"]
    /\ UNCHANGED <<now, ops, lastWrite>>

\* an hour passes
Tick ==
    /\ now < MaxTime
    /\ now' = now + 1
    /\ UNCHANGED <<bySession, pc, local, ops, lastWrite>>

CacheNext ==
    \/ \E p \in Procs, sid \in SessionInputs, sig \in SignatureInputs : CacheCall(p, sid, sig)
    \/ \E p \in Procs : CacheStore(p)
    \/ \E p \in Procs, sid \in SessionInputs : GetCall(p, sid)
    \/ \E p \in Procs : GetRead(p)
    \/ \E p \in Procs : GetCheck(p)
    \/ \E p \in Procs : GetDelete(p)
    \/ Tick

(***************************************************************************)
(* Part III.  The upstream reader goroutine of ExecuteStream               *)
(* (AntigravityExecutorV2) and its consumer.  Time is counted in seconds   *)
(* since the goroutine started.                                            *)
(***************************************************************************)
\* lines the upstream delivers in one response
MaxLines == 3
\* clock ticks while the reader waits for the first data line
MaxTicks == 3
\* seconds per clock tick
TickSeconds == 15

\* ExecuteStream: readFirstSSEDataLine(ctx, br, 30*time.Second)
firstLineTimeout == 30

\* variant of HasValidThoughtSignature that does not trim its argument
HasValidThoughtSignature_NoTrim(signature) ==
    IF signature = EmptyStr THEN FALSE
    ELSE IF signature = skipThoughtSignatureLiteral THEN TRUE
    ELSE Len(signature) >= minThoughtSignatureLength

\* HasValidThoughtSignature
HasValidThoughtSignature(signature) ==
    LET sig == TrimSpace(signature) IN
    IF sig = EmptyStr THEN FALSE
    ELSE IF sig = skipThoughtSignatureLiteral THEN TRUE
    ELSE Len(sig) >= minThoughtSignatureLength

\* a line of the upstream body.  kind: what readFirstSSEDataLine sees ("blank",
\* a non-blank line without the data: prefix, or a data: line); json: what
\* jsonPayload yields for it ("none" for nil, "invalid" for bytes that are not
\* valid JSON, "ok"); text, finishReason, thoughtSignature: the candidate's part
\* and finish reason inside a valid payload
Line(kind, json, text, finishReason, sig) ==
    [kind |-> kind, json |-> json, text |-> text, finishReason |-> finishReason,
     thoughtSignature |-> sig]

NoLine == [kind |-> "nil"]

UpstreamLines ==
    { Line("blank", "none", "", "", EmptyStr),
      Line("event", "none", "", "", EmptyStr),
      Line("data", "invalid", "", "", EmptyStr),
      Line("data", "ok", "hi", "", EmptyStr),
      Line("data", "ok", "hi", "", Repeat("a", minThoughtSignatureLength)),
      Line("data", "ok", "hi", "STOP", EmptyStr) }

\* strings.ToUpper on the finish reasons of the model
ToUpper(str) == IF str = "stop" THEN "STOP" ELSE str

\* ir.MapGeminiFinishReason (util_gemini.go:581; the variant at 1401 maps
\* MALFORMED_FUNCTION_CALL to FinishReasonToolCalls instead)
MapGeminiFinishReason(fr) ==
    IF ToUpper(fr) \in {"STOP", "FINISH_REASON_UNSPECIFIED", "UNKNOWN"} THEN FinishReasonStop
    ELSE IF ToUpper(fr) = "MAX_TOKENS" THEN FinishReasonLength
    ELSE IF ToUpper(fr) \in {"SAFETY", "RECITATION"} THEN FinishReasonContentFilter
    ELSE FinishReasonUnknown

\* usageMetadata of a chunk; absent, or its token counts
NoUsageMetadata == [absent |-> TRUE]

UsageMetadatas ==
    { NoUsageMetadata,
      [promptTokenCount |-> 10, thoughtsTokenCount |-> 2, cachedContentTokenCount |-> 3,
       candidatesTokenCount |-> 5, totalTokenCount |-> 17],
      [promptTokenCount |-> 10, thoughtsTokenCount |-> 0, cachedContentTokenCount |-> 3,
       candidatesTokenCount |-> 5, totalTokenCount |-> 15],
      [promptTokenCount |-> 2, thoughtsTokenCount |-> 0, cachedContentTokenCount |-> 3,
       candidatesTokenCount |-> 5, totalTokenCount |-> 7] }

\* parseGeminiUsage
parseGeminiUsage(u) ==
    IF u = NoUsageMetadata THEN NoUsage
    ELSE LET promptTokens == IF u.promptTokenCount - u.cachedContentTokenCount < 0 THEN 0
                             ELSE u.promptTokenCount - u.cachedContentTokenCount
         IN  [PromptTokens |-> promptTokens + u.thoughtsTokenCount,
              CompletionTokens |-> u.candidatesTokenCount,
              TotalTokens |-> u.totalTokenCount,
              ThoughtsTokenCount |-> u.thoughtsTokenCount,
              CachedTokens |-> u.cachedContentTokenCount]

\* a chunk handed to a parser.  data: what ir.ExtractSSEData yields for the
\* bytes ("empty", "done" for [DONE], "invalid" for bytes that are not valid
\* JSON, "json"); envelope: the JSON wraps the Gemini response in "response";
\* usage: its usageMetadata; candidates: it has at least one candidate; part,
\* sig: the kind and thoughtSignature of the part of the first candidate;
\* hasFinish, finishReason: the first candidate's finishReason
GeminiChunk(data, envelope, usage, candidates, part, sig, hasFinish, finishReason) ==
    [data |-> data, envelope |-> envelope, usage |-> usage, candidates |-> candidates,
     part |-> part, sig |-> sig, hasFinish |-> hasFinish, finishReason |-> finishReason]

\* the events of one part of the first candidate (ParseGeminiChunk, "Parse parts")
PartEvents(part, sig) ==
    CASE part = "text" ->
           <<Event(EventTypeToken, "hi", EmptyStr, NoToolCall, 0, FinishReasonNone, NoUsage, "")>>
      [] part = "thought" ->
           <<Event(EventTypeReasoning, "", <<"h", "m", "m", "m">>, NoToolCall, 0,
                   FinishReasonNone, NoUsage, "")>>
      [] part = "functionCall" ->
           <<Event(EventTypeToolCall, "", EmptyStr, ToolCallRec("call_a", "", NameOf["call_a"]),
                   0, FinishReasonNone, NoUsage, "call_a")>>
      [] part = "image" ->
           <<Event(EventTypeImage, "", EmptyStr, NoToolCall, 0, FinishReasonNone, NoUsage, "")>>
      [] part = "other" /\ sig # EmptyStr ->
           <<Event(EventTypeReasoning, "", EmptyStr, NoToolCall, 0, FinishReasonNone, NoUsage, "")>>
      [] OTHER -> << >>

\* variant of FinishEventOf that takes the presence of usage as a finish signal
FinishEventOf_OnUsage(finishReason, usage) ==
    IF finishReason # FinishReasonNone \/ usage # NoUsage
    THEN <<Event(EventTypeFinish, "", EmptyStr, NoToolCall, 0, finishReason, usage, "")>>
    ELSE << >>

\* ParseGeminiChunk: "Emit Finish event ONLY if we have an explicit finish reason"
FinishEventOf(finishReason, usage) ==
    IF finishReason # FinishReasonNone
    THEN <<Event(EventTypeFinish, "", EmptyStr, NoToolCall, 0, finishReason, usage, "")>>
    ELSE << >>

\* ParseGeminiChunk on the JSON value it looks into
GeminiEvents(usage, candidates, part, sig, hasFinish, finishReason) ==
    (IF candidates THEN PartEvents(part, sig) ELSE << >>)
    \o FinishEventOf(IF candidates /\ hasFinish THEN MapGeminiFinishReason(finishReason)
                     ELSE FinishReasonNone,
                     parseGeminiUsage(usage))

\* ParseGeminiChunk: the events and whether the error is non-nil.  The parser
\* reads usageMetadata and candidates at the top level of the JSON, so it sees
\* none in an enveloped chunk.
ParseGeminiChunk(chunk) ==
    CASE chunk.data = "empty" -> [events |-> << >>, err |-> FALSE]
      [] chunk.data = "done" -> [events |-> <<DoneEvent>>, err |-> FALSE]
      [] chunk.data = "invalid" -> [events |-> << >>, err |-> TRUE]
      [] OTHER ->
           [events |-> IF chunk.envelope THEN << >>
                       ELSE GeminiEvents(chunk.usage, chunk.candidates, chunk.part, chunk.sig,
                                         chunk.hasFinish, chunk.finishReason),
            err |-> FALSE]

\* ParseAntigravityChunk: unwraps "response" when present, then ParseGeminiChunk
ParseAntigravityChunk(chunk) ==
    CASE chunk.data = "empty" -> [events |-> << >>, err |-> FALSE]
      [] chunk.data = "done" -> [events |-> <<DoneEvent>>, err |-> FALSE]
      [] chunk.data = "invalid" -> [events |-> << >>, err |-> TRUE]
      [] OTHER -> ParseGeminiChunk([chunk EXCEPT !.envelope = FALSE])

\* the chunk that a line of the Antigravity body carries
ChunkOfLine(line) ==
    GeminiChunk(IF line.json = "ok" THEN "json" ELSE IF line.json = "invalid" THEN "invalid"
                ELSE "empty",
                TRUE, NoUsageMetadata, TRUE,
                IF line.text # "" THEN "text" ELSE "other", line.thoughtSignature,
                line.finishReason # "", line.finishReason)

\* the session id of the request (ensureAntigravityMetadata)
execSessionID == <<"s", "1">>

\* cacheThoughtSignatureFromAntigravityChunk: the cache after the line
CacheFromChunk(f, line, t) ==
    IF /\ TrimSpace(execSessionID) # EmptyStr
       /\ line.json = "ok"
       /\ HasValidThoughtSignature(line.thoughtSignature)
       /\ CacheAccepts(TrimSpace(execSessionID), TrimSpace(line.thoughtSignature))
    THEN StoreEntry(f, TrimSpace(execSessionID), TrimSpace(line.thoughtSignature), t)
    ELSE f

\* cliproxyexecutor.StreamChunk{Err: err}
ErrItem == [err |-> TRUE]

\* cliproxyexecutor.StreamChunk{Payload: chunk}
PayloadItem(chunk) == [err |-> FALSE, chunk |-> chunk]

PayloadItems(logged) == [i \in 1..Len(logged) |-> PayloadItem(logged[i].chunk)]

\* variant of ErrorChunks that sends nothing on an error
ErrorChunks_Dropped(failed) == << >>

\* the chunk sent for a non-nil error: out <- StreamChunk{Err: err}
ErrorChunks(failed) == IF failed THEN <<ErrItem>> ELSE << >>

VARIABLES
    rpc,        \* where the reader goroutine is
    upstream,   \* lines the upstream has delivered and the reader has not read
    upStatus,   \* "open", or how the body ended: "eof", "err"
    delivered,  \* number of lines the upstream has delivered
    elapsed,    \* seconds since the goroutine started
    ticks,      \* clock ticks so far
    cancelled,  \* ctx is cancelled
    consumer,   \* "active" while the consumer receives from out, else "stopped"
    firstLine,  \* the line readFirstSSEDataLine returned, until the scanner yields it
    outbox,     \* chunks the reader is about to send on out, in order
    after,      \* where the reader goes on once the outbox is sent
    received,   \* items sent on out (the channel is unbuffered: sent = received)
    scanErr,    \* scanner.Err() # nil
    chanClosed, \* close(out) has run
    bodyClosed, \* resp.Body.Close() has run
    firstDataAt,\* time at which the upstream delivered its first data: line, -1 if none
    failure     \* which error the reader met: "none", "peek", "conv", "scan"

execVars == <<rpc, upstream, upStatus, delivered, elapsed, ticks, cancelled, consumer,
              firstLine, outbox, after, received, scanErr, chanClosed, bodyClosed,
              firstDataAt, failure>>

ExecInit ==
    /\ rpc = "peek"
    /\ upstream = << >>
    /\ upStatus = "open"
    /\ delivered = 0
    /\ elapsed = 0
    /\ ticks = 0
    /\ cancelled = FALSE
    /\ consumer = "active"
    /\ firstLine = NoLine
    /\ outbox = << >>
    /\ after = "return"
    /\ received = << >>
    /\ scanErr = FALSE
    /\ chanClosed = FALSE
    /\ bodyClosed = FALSE
    /\ firstDataAt = -1
    /\ failure = "none"

\* the reader has items to send and then goes on at `next`
Enqueue(items, next) ==
    /\ outbox' = items
    /\ after' = next
    /\ rpc' = IF items = << >> THEN next ELSE "send"

\* readFirstSSEDataLine, top of the loop: ctx.Done(), then the deadline
PeekCheck ==
    /\ rpc = "peek"
    /\ IF cancelled \/ elapsed > firstLineTimeout
       THEN /\ Enqueue(ErrorChunks(TRUE), "return")
            /\ failure' = "peek"
       ELSE /\ rpc' = "peek_read"
            /\ UNCHANGED <<outbox, after, failure>>
    /\ UNCHANGED <<upstream, upStatus, delivered, elapsed, ticks, cancelled, consumer,
                   firstLine, received, scanErr, chanClosed, bodyClosed, firstDataAt>>
    /\ UNCHANGED <<state, bySession, lastWrite>>

\* readFirstSSEDataLine: r.ReadBytes('\n') returns a line: a data: line is the
\* result, any other line goes back to the top of the loop
PeekReadLine ==
    /\ rpc = "peek_read"
    /\ upstream # << >>
    /\ upstream' = Tail(upstream)
    /\ IF Head(upstream).kind = "data"
       THEN /\ firstLine' = Head(upstream)
            /\ rpc' = "scan"
       ELSE /\ rpc' = "peek"
            /\ UNCHANGED firstLine
    /\ UNCHANGED <<upStatus, delivered, elapsed, ticks, cancelled, consumer, outbox, after,
                   received, scanErr, chanClosed, bodyClosed, firstDataAt, failure>>
    /\ UNCHANGED <<state, bySession, lastWrite>>

\* readFirstSSEDataLine: r.ReadBytes('\n') returns an error: the body ended, or
\* the request's context was cancelled; ExecuteStream sends errPeek and returns
PeekReadError ==
    /\ rpc = "peek_read"
    /\ \/ upstream = << >> /\ upStatus # "open"
       \/ cancelled
    /\ Enqueue(ErrorChunks(TRUE), "return")
    /\ failure' = "peek"
    /\ UNCHANGED <<upstream, upStatus, delivered, elapsed, ticks, cancelled, consumer,
                   firstLine, received, scanErr, chanClosed, bodyClosed, firstDataAt>>
    /\ UNCHANGED <<state, bySession, lastWrite>>

\* one iteration of `for scanner.Scan()`: the first line, then the lines that follow
ScanLine ==
    /\ rpc = "scan"
    /\ firstLine # NoLine \/ upstream # << >>
    /\ LET line == IF firstLine # NoLine THEN firstLine ELSE Head(upstream)
           k    == TrimSpace(execSessionID)
           bs   == CacheFromChunk(bySession, line, now)
           parsed == ParseAntigravityChunk(ChunkOfLine(line))
           r    == convertUnifiedEventsToChunks(state, parsed.events, 0)
       IN  /\ firstLine' = NoLine
           /\ upstream' = IF firstLine # NoLine THEN upstream ELSE Tail(upstream)
           /\ bySession' = bs
           /\ lastWrite' = IF bs = bySession THEN lastWrite
                           ELSE [lastWrite EXCEPT ![k] =
                                   [seq |-> @.seq + 1, signature |-> bs[k].signature, at |-> now]]
           /\ IF line.json = "none"
              THEN UNCHANGED <<rpc, outbox, after, failure, state>>
              ELSE IF parsed.err \/ r.err
                   THEN /\ Enqueue(ErrorChunks(TRUE), "return")
                        /\ failure' = "conv"
                        /\ state' = IF parsed.err THEN state ELSE r.st
                   ELSE /\ Enqueue(PayloadItems(r.chunks), "scan")
                        /\ state' = r.st
                        /\ UNCHANGED failure
    /\ UNCHANGED <<upStatus, delivered, elapsed, ticks, cancelled, consumer, received,
                   scanErr, chanClosed, bodyClosed, firstDataAt>>

\* scanner.Scan() returns false (end of body, read error, cancelled request);
\* "Finalize stream": [DONE] is translated and its chunks are sent
ScanEnd ==
    /\ rpc = "scan"
    /\ firstLine = NoLine
    /\ \/ upstream = << >> /\ upStatus # "open"
       \/ cancelled
    /\ scanErr' = ~(upstream = << >> /\ upStatus = "eof")
    /\ LET r == convertUnifiedEventsToChunks(state, <<DoneEvent>>, 0) IN
        /\ state' = r.st
        /\ Enqueue(IF r.err THEN << >> ELSE PayloadItems(r.chunks), "scan_err")
    /\ UNCHANGED <<upstream, upStatus, delivered, elapsed, ticks, cancelled, consumer,
                   firstLine, received, chanClosed, bodyClosed, firstDataAt, failure>>
    /\ UNCHANGED <<bySession, lastWrite>>

\* if errScan := scanner.Err(); errScan != nil { out <- Err; return }
ScanErrCheck ==
    /\ rpc = "scan_err"
    /\ Enqueue(ErrorChunks(scanErr), "return")
    /\ failure' = IF scanErr THEN "scan" ELSE failure
    /\ UNCHANGED <<upstream, upStatus, delivered, elapsed, ticks, cancelled, consumer,
                   firstLine, received, scanErr, chanClosed, bodyClosed, firstDataAt>>
    /\ UNCHANGED <<state, bySession, lastWrite>>

\* out <- chunk on the unbuffered channel: happens when the consumer receives
Send ==
    /\ rpc = "send"
    /\ consumer = "active"
    /\ received' = Append(received, Head(outbox))
    /\ outbox' = Tail(outbox)
    /\ rpc' = IF Tail(outbox) = << >> THEN after ELSE "send"
    /\ UNCHANGED <<upstream, upStatus, delivered, elapsed, ticks, cancelled, consumer,
                   firstLine, after, scanErr, chanClosed, bodyClosed, firstDataAt, failure>>
    /\ UNCHANGED <<state, bySession, lastWrite>>

\* the goroutine returns: deferred resp.Body.Close(), then deferred close(out)
Return ==
    /\ rpc = "return"
    /\ bodyClosed' = TRUE
    /\ chanClosed' = TRUE
    /\ rpc' = "done"
    /\ UNCHANGED <<upstream, upStatus, delivered, elapsed, ticks, cancelled, consumer,
                   firstLine, outbox, after, received, scanErr, firstDataAt, failure>>
    /\ UNCHANGED <<state, bySession, lastWrite>>

\* the upstream delivers one more line of the body
UpstreamLine(line) ==
    /\ upStatus = "open"
    /\ ~bodyClosed
    /\ delivered < MaxLines
    /\ upstream' = Append(upstream, line)
    /\ delivered' = delivered + 1
    /\ firstDataAt' = IF line.kind = "data" /\ firstDataAt = -1 THEN elapsed ELSE firstDataAt
    /\ UNCHANGED <<rpc, upStatus, elapsed, ticks, cancelled, consumer, firstLine, outbox,
                   after, received, scanErr, chanClosed, bodyClosed, failure>>
    /\ UNCHANGED <<state, bySession, lastWrite>>

\* the upstream ends the body, cleanly or with a transport error
UpstreamEnd(how) ==
    /\ upStatus = "open"
    /\ ~bodyClosed
    /\ upStatus' = how
    /\ UNCHANGED <<rpc, upstream, delivered, elapsed, ticks, cancelled, consumer, firstLine,
                   outbox, after, received, scanErr, chanClosed, bodyClosed, firstDataAt,
                   failure>>
    /\ UNCHANGED <<state, bySession, lastWrite>>

\* time passes while readFirstSSEDataLine runs
ExecTick ==
    /\ rpc \in {"peek", "peek_read"}
    /\ ticks < MaxTicks
    /\ ticks' = ticks + 1
    /\ elapsed' = elapsed + TickSeconds
    /\ UNCHANGED <<rpc, upstream, upStatus, delivered, cancelled, consumer, firstLine,
                   outbox, after, received, scanErr, chanClosed, bodyClosed, firstDataAt,
                   failure>>
    /\ UNCHANGED <<state, bySession, lastWrite>>

\* the client goes away: the request's context is cancelled
Cancel ==
    /\ ~cancelled
    /\ rpc # "done"
    /\ cancelled' = TRUE
    /\ UNCHANGED <<rpc, upstream, upStatus, delivered, elapsed, ticks, consumer, firstLine,
                   outbox, after, received, scanErr, chanClosed, bodyClosed, firstDataAt,
                   failure>>
    /\ UNCHANGED <<state, bySession, lastWrite>>

\* the consumer of the channel, its context cancelled, stops receiving
ConsumerStop ==
    /\ cancelled
    /\ consumer = "active"
    /\ consumer' = "stopped"
    /\ UNCHANGED <<rpc, upstream, upStatus, delivered, elapsed, ticks, cancelled, firstLine,
                   outbox, after, received, scanErr, chanClosed, bodyClosed, firstDataAt,
                   failure>>
    /\ UNCHANGED <<state, bySession, lastWrite>>

\* the steps of the reader goroutine
ReaderStep ==
    \/ PeekCheck
    \/ PeekReadLine
    \/ PeekReadError
    \/ ScanLine
    \/ ScanEnd
    \/ ScanErrCheck
    \/ Send
    \/ Return

ExecNext ==
    \/ ReaderStep
    \/ \E line \in UpstreamLines : UpstreamLine(line)
    \/ \E how \in {"eof", "err"} : UpstreamEnd(how)
    \/ ExecTick
    \/ Cancel
    \/ ConsumerStop

(***************************************************************************)
(* Part IV.  Responses-API streaming (from_ir: ToResponsesAPIChunk on one  *)
(* ResponsesStreamState).                                                  *)
(***************************************************************************)
\* events processed on one ResponsesStreamState
MaxResponsesEvents == 3

\* output indices that tool-call events carry
ResponsesIndices == {0, 1}

\* ir.ToolCall as the Responses handlers read it
ResponsesToolCall(id, item, name, args, isCustom) ==
    [ID |-> id, ItemID |-> item, Name |-> name, Args |-> args, IsCustom |-> isCustom]

\* ir.UnifiedEvent as ToResponsesAPIChunk reads it
ResponsesEvent(type, content, reasoning, tc, idx) ==
    [Type |-> type, Content |-> content, Reasoning |-> reasoning, ToolCall |-> tc,
     ToolCallIndex |-> idx]

ResponsesToolEvents(type) ==
    { ResponsesEvent(type, EmptyStr, EmptyStr,
                     ResponsesToolCall("call_a", "", "get", args, custom), i)
        : args \in {EmptyStr, <<"x">>}, custom \in BOOLEAN, i \in ResponsesIndices }

ResponsesEvents ==
    { ResponsesEvent(EventTypeToken, <<"h", "i">>, EmptyStr, NoToolCall, 0),
      ResponsesEvent(EventTypeReasoning, EmptyStr, <<"h", "m">>, NoToolCall, 0),
      ResponsesEvent(EventTypeImage, EmptyStr, EmptyStr, NoToolCall, 0),
      ResponsesEvent(EventTypeFinish, EmptyStr, EmptyStr, NoToolCall, 0) }
    \cup ResponsesToolEvents(EventTypeToolCall)
    \cup ResponsesToolEvents(EventTypeToolCallDelta)

\* NewResponsesStreamState.  The maps that the handlers only read through
\* m[idx] are total, with Go's zero values; FuncCallIDs is tested for presence.
NewResponsesStreamState ==
    [Seq |-> 0, Started |-> FALSE, ReasoningID |-> EmptyStr, MsgID |-> EmptyStr,
     TextBuffer |-> EmptyStr, ReasoningBuffer |-> EmptyStr,
     FuncCallIDs |-> << >>,
     FuncNames |-> [i \in ResponsesIndices |-> ""],
     FuncArgsBuffer |-> [i \in ResponsesIndices |-> EmptyStr],
     FuncIsCustom |-> [i \in ResponsesIndices |-> FALSE],
     FuncDone |-> [i \in ResponsesIndices |-> FALSE],
     ArgsDone |-> [i \in ResponsesIndices |-> FALSE]]

\* one SSE chunk: its type, sequence_number, output_index, and the type and id of
\* its item ("" and the empty id where the chunk has none), with the arguments it reports
ResponsesChunk(type, seq, idx, itemType, itemID, args) ==
    [type |-> type, sequence_number |-> seq, output_index |-> idx,
     item_type |-> itemType, item_id |-> itemID, arguments |-> args]

\* out = append(out, chunk) with "sequence_number": nextSeq()
Emit(acc, type, idx, itemType, itemID, args) ==
    [st  |-> [acc.st EXCEPT !.Seq = @ + 1],
     out |-> Append(acc.out, ResponsesChunk(type, acc.st.Seq + 1, idx, itemType, itemID, args))]

\* buildResponsesStartEvents
buildResponsesStartEvents(acc) ==
    Emit(Emit(acc, "response.created", -1, "", EmptyStr, EmptyStr),
         "response.in_progress", -1, "", EmptyStr, EmptyStr)

\* handleTokenEvent
handleTokenEvent(event, acc0) ==
    LET a1 == IF acc0.st.MsgID = EmptyStr
              THEN Emit(Emit([acc0 EXCEPT !.st.MsgID = <<"msg_">>],
                             "response.output_item.added", 0, "message", <<"msg_">>, EmptyStr),
                        "response.content_part.added", 0, "", <<"msg_">>, EmptyStr)
              ELSE acc0
        a2 == [a1 EXCEPT !.st.TextBuffer = @ \o event.Content]
    IN  Emit(a2, "response.output_text.delta", 0, "", a2.st.MsgID, EmptyStr)

\* handleReasoningEvent
handleReasoningEvent(event, acc0) ==
    LET a1 == IF acc0.st.ReasoningID = EmptyStr
              THEN Emit([acc0 EXCEPT !.st.ReasoningID = <<"rs_">>],
                        "response.output_item.added", 0, "reasoning", <<"rs_">>, EmptyStr)
              ELSE acc0
        a2 == [a1 EXCEPT !.st.ReasoningBuffer = @ \o event.Reasoning]
    IN  Emit(a2, "response.reasoning_summary_text.delta", 0, "", a2.st.ReasoningID, EmptyStr)

\* "function_call" or "custom_tool_call"
ItemType(isCustom) == IF isCustom THEN "custom_tool_call" ELSE "function_call"

\* id := ItemID if present, else "fc_" + ID
FuncCallID(tc) == IF tc.ItemID # "" THEN <<tc.ItemID>> ELSE <<"fc_", tc.ID>>

\* handleToolCallEvent / handleToolCallDeltaEvent: first event of an index
\* registers it and announces the item
AnnounceToolCall(event, acc0) ==
    LET idx == event.ToolCallIndex
        tc  == event.ToolCall
    IN  IF idx \in DOMAIN acc0.st.FuncCallIDs THEN acc0
        ELSE Emit([acc0 EXCEPT !.st.FuncCallIDs = (idx :> FuncCallID(tc)) @@ @,
                               !.st.FuncNames[idx] = tc.Name,
                               !.st.FuncIsCustom[idx] = tc.IsCustom],
                  "response.output_item.added", idx, ItemType(tc.IsCustom),
                  FuncCallID(tc), EmptyStr)

\* handleToolCallEvent / handleToolCallDeltaEvent: accumulate, then send the delta
ArgsDelta(event, acc0) ==
    LET idx == event.ToolCallIndex
        tc  == event.ToolCall
        a1  == IF ~tc.IsCustom /\ tc.Args # EmptyStr
               THEN [acc0 EXCEPT !.st.FuncArgsBuffer[idx] = @ \o tc.Args]
               ELSE acc0
    IN  IF tc.Args = EmptyStr THEN a1
        ELSE Emit(a1, IF tc.IsCustom THEN "response.custom_tool_call_input.delta"
                      ELSE "response.function_call_arguments.delta",
                  idx, "", a1.st.FuncCallIDs[idx], tc.Args)

\* variant of ArgsDoneDue that forgets that arguments.done was sent
ArgsDoneDue_NotOnce(st, idx, isCustom) ==
    ~isCustom /\ st.FuncArgsBuffer[idx] # EmptyStr

\* handleToolCallEvent: arguments.done is due
ArgsDoneDue(st, idx, isCustom) ==
    ~isCustom /\ ~st.ArgsDone[idx] /\ st.FuncArgsBuffer[idx] # EmptyStr

\* variant of ItemDoneHeld that never waits for the arguments
ItemDoneHeld_Never(st, idx, isCustom) == FALSE

\* handleToolCallEvent: output_item.done waits for arguments.done
ItemDoneHeld(st, idx, isCustom) == ~isCustom /\ ~st.ArgsDone[idx]

\* handleToolCallEvent
handleToolCallEvent(event, acc0) ==
    LET idx == event.ToolCallIndex
        tc  == event.ToolCall
        a1  == ArgsDelta(event, AnnounceToolCall(event, acc0))
        a2  == IF ArgsDoneDue(a1.st, idx, tc.IsCustom)
               THEN Emit([a1 EXCEPT !.st.ArgsDone[idx] = TRUE],
                         "response.function_call_arguments.done", idx, "",
                         a1.st.FuncCallIDs[idx], a1.st.FuncArgsBuffer[idx])
               ELSE a1
    IN  IF a2.st.FuncDone[idx] \/ ItemDoneHeld(a2.st, idx, tc.IsCustom) THEN a2
        ELSE Emit([a2 EXCEPT !.st.FuncDone[idx] = TRUE],
                  "response.output_item.done", idx, ItemType(tc.IsCustom),
                  a2.st.FuncCallIDs[idx],
                  IF tc.IsCustom THEN tc.Args ELSE a2.st.FuncArgsBuffer[idx])

\* handleToolCallDeltaEvent
handleToolCallDeltaEvent(event, acc0) ==
    ArgsDelta(event, AnnounceToolCall(event, acc0))

\* handleFinishEvent
handleFinishEvent(event, acc0) ==
    LET a1 == IF acc0.st.MsgID # EmptyStr
              THEN Emit(Emit(acc0, "response.content_part.done", 0, "", acc0.st.MsgID, EmptyStr),
                        "response.output_item.done", 0, "message", acc0.st.MsgID, EmptyStr)
              ELSE acc0
        a2 == IF a1.st.ReasoningID # EmptyStr
              THEN Emit(a1, "response.output_item.done", 0, "reasoning", a1.st.ReasoningID,
                        EmptyStr)
              ELSE a1
    IN  Emit(a2, "response.done", -1, "", EmptyStr, EmptyStr)

\* ToResponsesAPIChunk(event, model, state): the state after the call and the
\* chunks returned
ToResponsesAPIChunk(event, st) ==
    LET a0 == IF st.Started THEN [st |-> st, out |-> << >>]
              ELSE buildResponsesStartEvents([st |-> [st EXCEPT !.Started = TRUE], out |-> << >>])
    IN  CASE event.Type = EventTypeToken -> handleTokenEvent(event, a0)
          [] event.Type = EventTypeReasoning -> handleReasoningEvent(event, a0)
          [] event.Type = EventTypeToolCall -> handleToolCallEvent(event, a0)
          [] event.Type = EventTypeToolCallDelta -> handleToolCallDeltaEvent(event, a0)
          [] event.Type = EventTypeFinish -> handleFinishEvent(event, a0)
          [] OTHER -> a0

VARIABLES
    respState,  \* the ResponsesStreamState of the stream
    respOut,    \* the chunks returned so far, in order
    respEvents, \* the events processed so far, in order
    lastCall    \* position in respOut of the first chunk of the latest call

respVars == <<respState, respOut, respEvents, lastCall>>

ResponsesInit ==
    /\ respState = NewResponsesStreamState
    /\ respOut = << >>
    /\ respEvents = << >>
    /\ lastCall = 1

\* one call of ToResponsesAPIChunk on the stream's state
ResponsesCall(event) ==
    /\ Len(respEvents) < MaxResponsesEvents
    /\ LET r == ToResponsesAPIChunk(event, respState) IN
        /\ respState' = r.st
        /\ respOut' = respOut \o r.out
    /\ respEvents' = Append(respEvents, event)
    /\ lastCall' = Len(respOut) + 1

ResponsesNext == \E event \in ResponsesEvents : ResponsesCall(event)

(***************************************************************************)
(* Part V.  The Kiro stream parser (KiroStreamState) and the chunk         *)
(* parsers as functions of one chunk.                                      *)
(***************************************************************************)
\* bound of the model: chunks that one Kiro content string is split into
MaxKiroChunks == 3

kiroThinkingStartTag == <<"<", "t", "h", "i", "n", "k", "i", "n", "g", ">">>

kiroThinkingEndTag == <<"<", "/", "t", "h", "i", "n", "k", "i", "n", "g", ">">>

\* strings.Index: the byte offset of the first occurrence of sub in s, or -1
Index(s, sub) ==
    LET hits == { i \in 0..(Len(s) - Len(sub)) : SubSeq(s, i + 1, i + Len(sub)) = sub }
    IN  IF hits = {} THEN -1 ELSE CHOOSE i \in hits : \A j \in hits : i <= j

\* s[n:]
From(s, n) == SubSeq(s, n + 1, Len(s))

\* ir.UnifiedEvent as the Kiro parser fills it
KiroEvent(type, content, reasoning, tc, idx) ==
    [Type |-> type, Content |-> content, Reasoning |-> reasoning, ToolCall |-> tc,
     ToolCallIndex |-> idx]

\* ir.ToolCall as the Kiro parser fills it
KiroToolCall(id, name, args, isComplete) ==
    [ID |-> id, Name |-> name, Args |-> args, IsComplete |-> isComplete]

\* a tool id is its prefix and the rest
convertToolID(id) == IF id[1] = "tooluse_" THEN <<"call_", id[2]>> ELSE id

NewKiroStreamState ==
    [Usage |-> NoUsage, CurrentTool |-> NoToolCall, AccumulatedContent |-> EmptyStr,
     CurrentToolInput |-> EmptyStr, ToolCalls |-> << >>, InThinkingBlock |-> FALSE,
     AccumulatedThinking |-> EmptyStr]

\* hasToolCall
hasToolCall(s, id) == \E i \in 1..Len(s.ToolCalls) : s.ToolCalls[i].ID = id

\* ParseEmbeddedToolCalls: text that holds no "[Called" is returned as it is.
\* The contents of the model hold no "[", so there are no embedded calls.
ParseEmbeddedToolCalls(text) == [cleanText |-> text, toolCalls |-> << >>]

\* the text branch of processContentWithThinking: emit text as a Token event
EmitText(acc, text) ==
    LET p == ParseEmbeddedToolCalls(text) IN
    IF text = EmptyStr \/ p.cleanText = EmptyStr THEN acc
    ELSE [acc EXCEPT !.st.AccumulatedContent = @ \o p.cleanText,
                     !.textEvents = Append(@, KiroEvent(EventTypeToken, p.cleanText, EmptyStr,
                                                        NoToolCall, 0))]

\* the thinking branch of processContentWithThinking: emit text as a Reasoning event
EmitThinking(acc, text) ==
    IF text = EmptyStr THEN acc
    ELSE [acc EXCEPT !.st.AccumulatedThinking = @ \o text,
                     !.thinkingEvents = Append(@, KiroEvent(EventTypeReasoning, EmptyStr, text,
                                                            NoToolCall, 0))]

\* the loop of processContentWithThinking
RECURSIVE contentLoop(_, _)
contentLoop(acc, remaining) ==
    IF remaining = EmptyStr THEN acc
    ELSE IF acc.st.InThinkingBlock
    THEN LET endIdx == Index(remaining, kiroThinkingEndTag) IN
         IF endIdx >= 0
         THEN contentLoop([EmitThinking(acc, SubSeq(remaining, 1, endIdx))
                             EXCEPT !.st.InThinkingBlock = FALSE],
                          From(remaining, endIdx + Len(kiroThinkingEndTag)))
         ELSE EmitThinking(acc, remaining)
    ELSE LET startIdx == Index(remaining, kiroThinkingStartTag) IN
         IF startIdx >= 0
         THEN contentLoop([EmitText(acc, SubSeq(remaining, 1, startIdx))
                             EXCEPT !.st.InThinkingBlock = TRUE],
                          From(remaining, startIdx + Len(kiroThinkingStartTag)))
         ELSE EmitText(acc, remaining)

\* processContentWithThinking: the state after, textEvents and thinkingEvents
processContentWithThinking(s, content) ==
    contentLoop([st |-> s, textEvents |-> << >>, thinkingEvents |-> << >>], content)

\* a chunk of the Kiro stream.  data: "empty", "invalid" (bytes that are not
\* valid JSON) or "json"; usage: <<inputTokens, outputTokens>> or << >> when the
\* chunk has neither; kind: "reasoning" (reasoningContentEvent), "tool" (toolUseId
\* and name exist) or "regular"; content; the tool fields; toolUsages
KiroChunk(data, usage, kind, content, toolUseId, name, input, stop, toolUsages) ==
    [format |-> "kiro", data |-> data, usage |-> usage, kind |-> kind, content |-> content,
     toolUseId |-> toolUseId, name |-> name, input |-> input, stop |-> stop,
     toolUsages |-> toolUsages]

\* parseUsage
parseUsage(s, chunk) ==
    IF chunk.usage # << >> /\ (chunk.usage[1] > 0 \/ chunk.usage[2] > 0)
    THEN [s EXCEPT !.Usage = [PromptTokens |-> chunk.usage[1],
                              CompletionTokens |-> chunk.usage[2],
                              TotalTokens |-> chunk.usage[1] + chunk.usage[2]]]
    ELSE s

\* processReasoningEvent
processReasoningEvent(s, chunk) ==
    IF chunk.kind = "reasoning" /\ chunk.content # EmptyStr
    THEN [st |-> [s EXCEPT !.AccumulatedThinking = @ \o chunk.content],
          events |-> <<KiroEvent(EventTypeReasoning, EmptyStr, chunk.content, NoToolCall, 0)>>]
    ELSE [st |-> s, events |-> << >>]

\* processToolEvent
processToolEvent(s, chunk) ==
    LET id == convertToolID(chunk.toolUseId)
        isNewTool == s.CurrentTool = NoToolCall \/ s.CurrentTool.ID # id
        toolIndex == Len(s.ToolCalls)
        s1 == IF isNewTool
              THEN [s EXCEPT !.CurrentTool = KiroToolCall(id, chunk.name, EmptyStr, FALSE),
                             !.CurrentToolInput = EmptyStr]
              ELSE s
        inputDelta == chunk.input
        s2 == [s1 EXCEPT !.CurrentToolInput = @ \o inputDelta]
        first == IF isNewTool
                 THEN <<KiroEvent(EventTypeToolCall, EmptyStr, EmptyStr,
                                  KiroToolCall(id, chunk.name, inputDelta, FALSE), toolIndex)>>
                 ELSE IF inputDelta # EmptyStr
                 THEN <<KiroEvent(EventTypeToolCallDelta, EmptyStr, EmptyStr,
                                  KiroToolCall(EmptyStr, "", inputDelta, FALSE), toolIndex)>>
                 ELSE << >>
    IN  IF chunk.stop
        THEN [st |-> [s2 EXCEPT !.ToolCalls =
                                   Append(@, [s2.CurrentTool EXCEPT !.Args =
                                                 IF s2.CurrentToolInput = EmptyStr
                                                 THEN <<"{", "}">> ELSE s2.CurrentToolInput]),
                                !.CurrentTool = NoToolCall,
                                !.CurrentToolInput = EmptyStr],
              events |-> Append(first, KiroEvent(EventTypeToolCallDelta, EmptyStr, EmptyStr,
                                                 KiroToolCall(EmptyStr, "", EmptyStr, TRUE),
                                                 toolIndex))]
        ELSE [st |-> s2, events |-> first]

\* the toolUsages loop of processRegularEvents
RECURSIVE toolUsagesLoop(_, _)
toolUsagesLoop(acc, toolUsages) ==
    IF toolUsages = << >> THEN acc
    ELSE LET tool == Head(toolUsages)
             tc == KiroToolCall(convertToolID(tool.toolUseId), tool.name, tool.input, FALSE)
         IN  toolUsagesLoop(IF hasToolCall(acc.st, tc.ID) THEN acc
                            ELSE [st |-> [acc.st EXCEPT !.ToolCalls = Append(@, tc)],
                                  events |-> Append(acc.events,
                                                    KiroEvent(EventTypeToolCall, EmptyStr,
                                                              EmptyStr, tc, 0))],
                            Tail(toolUsages))

\* processRegularEvents
processRegularEvents(s, chunk) ==
    LET c == IF chunk.content # EmptyStr THEN processContentWithThinking(s, chunk.content)
             ELSE [st |-> s, textEvents |-> << >>, thinkingEvents |-> << >>]
    IN  toolUsagesLoop([st |-> c.st, events |-> c.thinkingEvents \o c.textEvents],
                       chunk.toolUsages)

\* KiroStreamState.ProcessChunk: the state after, the events and whether the
\* error is non-nil
ProcessChunk(s, chunk) ==
    IF chunk.data = "empty" THEN [st |-> s, events |-> << >>, err |-> FALSE]
    ELSE IF chunk.data = "invalid" THEN [st |-> s, events |-> << >>, err |-> FALSE]
    ELSE LET s1 == parseUsage(s, chunk)
             reasoning == processReasoningEvent(s1, chunk)
         IN  IF reasoning.events # << >>
             THEN [st |-> reasoning.st, events |-> reasoning.events, err |-> FALSE]
             ELSE IF chunk.kind = "tool"
             THEN LET r == processToolEvent(s1, chunk)
                  IN  [st |-> r.st, events |-> r.events, err |-> FALSE]
             ELSE LET r == processRegularEvents(s1, chunk)
                  IN  [st |-> r.st, events |-> r.events, err |-> FALSE]

\* the Gemini-format chunks given to the parsers
GeminiChunks ==
    { GeminiChunk(data, FALSE, NoUsageMetadata, FALSE, "none", EmptyStr, FALSE, "") :
        data \in {"empty", "done", "invalid"} }
    \cup
    { GeminiChunk("json", envelope, usage, candidates, part, EmptyStr, fr # "none",
                  IF fr = "none" THEN "" ELSE fr) :
        envelope \in BOOLEAN, usage \in UsageMetadatas, candidates \in BOOLEAN,
        part \in {"none", "text", "functionCall"},
        fr \in {"none", "", "STOP", "stop", "MAX_TOKENS", "SAFETY", "MALFORMED_FUNCTION_CALL"} }

\* the Kiro chunks given to ProcessChunk on a new state
KiroChunks ==
    { KiroChunk(data, << >>, "regular", EmptyStr, <<"", "">>, "", EmptyStr, FALSE, << >>) :
        data \in {"empty", "invalid"} }
    \cup
    { KiroChunk("json", usage, kind, content, <<"tooluse_", "a">>, "read", EmptyStr, stop,
                << >>) :
        usage \in {<< >>, <<7, 2>>}, kind \in {"regular", "reasoning", "tool"},
        content \in {EmptyStr, <<"h", "i">>}, stop \in BOOLEAN }

ParserInputs == { [format |-> "gemini", chunk |-> c] : c \in GeminiChunks }
                \cup { [format |-> "kiro", chunk |-> c] : c \in KiroChunks }

\* the Kiro content strings that are split into chunks
KiroContents ==
    { <<"a", "b">>,
      <<"a">> \o kiroThinkingStartTag \o <<"b">> \o kiroThinkingEndTag \o <<"c">>,
      kiroThinkingStartTag \o <<"b", "c">>,
      <<"<", "t", "h", "i", "n", "k", ">", "a">> }

VARIABLES
    pinput,   \* the chunk given to the parsers
    presult,  \* the parser applied last and what it returned
    kcontent, \* the Kiro content string that arrives in chunks
    kpos,     \* how many of its characters have arrived
    kchunks,  \* how many chunks have arrived
    kstate,   \* the KiroStreamState of the stream
    kevents   \* the events returned so far, in order

parseVars == <<pinput, presult>>

kiroVars == <<kcontent, kpos, kchunks, kstate, kevents>>

NoResult == [parser |-> "none"]

\* no chunk is being parsed
ParseIdle ==
    /\ pinput = [format |-> "none"]
    /\ presult = NoResult

\* a chunk to parse
ParseInit ==
    /\ pinput \in ParserInputs
    /\ presult = NoResult

ApplyParseGeminiChunk ==
    /\ pinput.format = "gemini"
    /\ LET r == ParseGeminiChunk(pinput.chunk) IN
        presult' = [parser |-> "ParseGeminiChunk", events |-> r.events, err |-> r.err]
    /\ UNCHANGED pinput

ApplyParseAntigravityChunk ==
    /\ pinput.format = "gemini"
    /\ LET r == ParseAntigravityChunk(pinput.chunk) IN
        presult' = [parser |-> "ParseAntigravityChunk", events |-> r.events, err |-> r.err]
    /\ UNCHANGED pinput

ApplyProcessChunk ==
    /\ pinput.format = "kiro"
    /\ LET r == ProcessChunk(NewKiroStreamState, pinput.chunk) IN
        presult' = [parser |-> "ProcessChunk", events |-> r.events, err |-> r.err]
    /\ UNCHANGED pinput

ParseNext == ApplyParseGeminiChunk \/ ApplyParseAntigravityChunk \/ ApplyProcessChunk

KiroStreamInit ==
    /\ kpos = 0
    /\ kchunks = 0
    /\ kstate = NewKiroStreamState
    /\ kevents = << >>

\* no Kiro stream
KiroIdle == kcontent = EmptyStr /\ KiroStreamInit

\* a Kiro stream whose content is about to arrive
KiroInit == kcontent \in KiroContents /\ KiroStreamInit

\* the next n characters of the content arrive as one chunk
KiroFeed(n) ==
    /\ kchunks < MaxKiroChunks
    /\ kpos + n <= Len(kcontent)
    /\ LET piece == SubSeq(kcontent, kpos + 1, kpos + n)
           r == ProcessChunk(kstate, KiroChunk("json", << >>, "regular", piece, <<"", "">>, "",
                                               EmptyStr, FALSE, << >>))
       IN  /\ kstate' = r.st
           /\ kevents' = kevents \o r.events
    /\ kpos' = kpos + n
    /\ kchunks' = kchunks + 1
    /\ UNCHANGED kcontent

KiroNext == \E n \in 1..Len(kcontent) : KiroFeed(n)

\* the toolUseEvent chunks of a Kiro stream with two tool uses
KiroToolChunks ==
    { KiroChunk("json", << >>, "tool", EmptyStr, <<"tooluse_", t>>,
                IF t = "a" THEN "read" ELSE "write", input, stop, << >>) :
        t \in {"a", "b"}, input \in {EmptyStr, <<"x">>}, stop \in BOOLEAN }

\* one toolUseEvent chunk arrives on the stream's state
KiroToolFeed(chunk) ==
    /\ kchunks < MaxKiroChunks
    /\ LET r == ProcessChunk(kstate, chunk) IN
        /\ kstate' = r.st
        /\ kevents' = kevents \o r.events
    /\ kchunks' = kchunks + 1
    /\ UNCHANGED <<kcontent, kpos>>

KiroToolNext == \E chunk \in KiroToolChunks : KiroToolFeed(chunk)

(***************************************************************************)
(* Part VI.  The Kiro request builder (KiroProvider.ConvertRequest), in    *)
(* its two versions: the one that builds maps (processMessages) and the    *)
(* one that builds structs (processMessagesStruct).  A text is a sequence  *)
(* of tokens.                                                              *)
(***************************************************************************)
\* bound of the model: messages of one request
MaxMessages == 3

RoleSystem == "system"

RoleUser == "user"

RoleAssistant == "assistant"

RoleTool == "tool"

\* ir.ContentPart of type text
TextPart(text) == [Type |-> "text", Text |-> text]

\* ir.ContentPart of type tool_result, with a ToolResult
ToolResultPart == [Type |-> "tool_result"]

\* ir.Message.  src is not a field of the program: the positions in
\* req.Messages of the messages it was built from
Message(role, content, toolCalls, src) ==
    [Role |-> role, Content |-> content, ToolCalls |-> toolCalls, src |-> src]

\* the messages a request is made of, before they get their position
MessageShapes ==
    { Message(RoleSystem, <<TextPart(<<"S">>)>>, 0, {}),
      Message(RoleUser, <<TextPart(<<"a">>)>>, 0, {}),
      Message(RoleUser, << >>, 0, {}),
      Message(RoleAssistant, <<TextPart(<<"b">>)>>, 0, {}),
      Message(RoleAssistant, << >>, 1, {}),
      Message(RoleTool, <<ToolResultPart>>, 0, {}),
      Message(RoleTool, <<TextPart(<<"t">>)>>, 0, {}) }

\* the requests: message lists and whether thinking is enabled
MessageLists ==
    UNION { [1..n -> MessageShapes] : n \in 0..MaxMessages }

Positioned(shapes) == [i \in 1..Len(shapes) |-> [shapes[i] EXCEPT !.src = {i}]]

\* the text parts of a content, in order
RECURSIVE TextsOf(_)
TextsOf(content) ==
    IF content = << >> THEN << >>
    ELSE (IF Head(content).Type = "text" /\ Head(content).Text # EmptyStr
          THEN <<Head(content).Text>> ELSE << >>) \o TextsOf(Tail(content))

\* strings.Join
RECURSIVE Join(_, _)
Join(parts, sep) ==
    IF parts = << >> THEN EmptyStr
    ELSE IF Len(parts) = 1 THEN parts[1]
    ELSE parts[1] \o sep \o Join(Tail(parts), sep)

\* ir.CombineTextParts: the texts of the text parts, one after the other
CombineTextParts(msg) == Join(TextsOf(msg.Content), EmptyStr)

\* the number of tool-result parts of a content
RECURSIVE ToolResultsOf(_)
ToolResultsOf(content) ==
    IF content = << >> THEN 0
    ELSE (IF Head(content).Type = "tool_result" THEN 1 ELSE 0) + ToolResultsOf(Tail(content))

\* extractSystemPrompt
extractSystemPrompt(messages) ==
    Join([i \in 1..Len(SelectSeq(messages, LAMBDA m : m.Role = RoleSystem)) |->
             CombineTextParts(SelectSeq(messages, LAMBDA m : m.Role = RoleSystem)[i])],
         <<"\n">>)

\* the thinking mode hint of injectThinkingMode, as one token
thinkingHint == <<"<thinking_mode>enabled</thinking_mode>">>

\* injectThinkingMode
injectThinkingMode(thinking, systemPrompt) ==
    IF ~thinking THEN systemPrompt
    ELSE IF systemPrompt # EmptyStr THEN thinkingHint \o <<"\n\n">> \o systemPrompt
    ELSE thinkingHint

filterSystemMessages(messages) == SelectSeq(messages, LAMBDA m : m.Role # RoleSystem)

RECURSIVE mergeLoop(_, _)
mergeLoop(merged, messages) ==
    IF messages = << >> THEN merged
    ELSE LET msg == Head(messages)
             n == Len(merged)
         IN  IF n > 0 /\ merged[n].Role = msg.Role /\ msg.Role # RoleUser
             THEN mergeLoop([merged EXCEPT ![n].Content = @ \o msg.Content,
                                           ![n].src = @ \cup msg.src],
                            Tail(messages))
             ELSE mergeLoop(Append(merged, msg), Tail(messages))

mergeConsecutiveMessages(messages) ==
    IF Len(messages) <= 1 THEN messages ELSE mergeLoop(<< >>, messages)

removePrefill(messages) ==
    IF messages = << >> THEN messages
    ELSE IF messages[Len(messages)].Role = RoleAssistant /\ messages[Len(messages)].ToolCalls = 0
    THEN SubSeq(messages, 1, Len(messages) - 1)
    ELSE messages

isUserLike(r) == r = RoleUser \/ r = RoleTool

RECURSIVE alternateLoop(_, _, _)
alternateLoop(alternated, messages, i) ==
    IF i > Len(messages) THEN alternated
    ELSE LET bridge ==
               IF i > 1 /\ isUserLike(messages[i - 1].Role) /\ isUserLike(messages[i].Role)
               THEN <<Message(RoleAssistant, <<TextPart(<<"[Continued]">>)>>, 0, {})>>
               ELSE IF i > 1 /\ messages[i - 1].Role = RoleAssistant
                             /\ messages[i].Role = RoleAssistant
               THEN <<Message(RoleUser, <<TextPart(<<"Continue">>)>>, 0, {})>>
               ELSE << >>
         IN  alternateLoop(alternated \o bridge \o <<messages[i]>>, messages, i + 1)

alternateRoles(messages) == alternateLoop(<< >>, messages, 1)

\* findTrailingStart, as a position from 0
RECURSIVE findTrailingStart(_)
findTrailingStart(messages) ==
    IF messages # << >> /\ messages[Len(messages)].Role = RoleTool
    THEN findTrailingStart(SubSeq(messages, 1, Len(messages) - 1))
    ELSE Len(messages)

\* an entry of the conversation: {"userInputMessage": ...}
UserInputMessage(content, toolResults, src) ==
    [kind |-> "userInputMessage", content |-> content, toolResults |-> toolResults,
     src |-> src]

\* an entry of the conversation: {"assistantResponseMessage": ...}
AssistantResponseMessage(content, toolUses, src) ==
    [kind |-> "assistantResponseMessage", content |-> content, toolUses |-> toolUses,
     src |-> src]

\* a nil map
NilMessage == [kind |-> "nil"]

buildUserMessage(msg, isCurrent) ==
    UserInputMessage(IF isCurrent /\ CombineTextParts(msg) = EmptyStr
                        /\ ToolResultsOf(msg.Content) = 0
                     THEN <<"Continue">> ELSE CombineTextParts(msg),
                     ToolResultsOf(msg.Content), msg.src)

buildAssistantMessage(msg) ==
    AssistantResponseMessage(CombineTextParts(msg), msg.ToolCalls, msg.src)

buildToolResultMessage(msg) ==
    IF ToolResultsOf(msg.Content) = 0 THEN NilMessage
    ELSE UserInputMessage(<<"Continue">>, ToolResultsOf(msg.Content), msg.src)

RECURSIVE AllContent(_)
AllContent(msgs) == IF msgs = << >> THEN << >> ELSE Head(msgs).Content \o AllContent(Tail(msgs))

buildMergedToolResultMessage(msgs) ==
    UserInputMessage(IF TextsOf(AllContent(msgs)) # << >>
                     THEN Join(TextsOf(AllContent(msgs)), <<"\n">>) ELSE <<"Continue">>,
                     ToolResultsOf(AllContent(msgs)),
                     UNION { msgs[i].src : i \in 1..Len(msgs) })

convertMessage(msg, isCurrent) ==
    CASE msg.Role = RoleUser -> buildUserMessage(msg, isCurrent)
      [] msg.Role = RoleAssistant -> buildAssistantMessage(msg)
      [] msg.Role = RoleTool -> buildToolResultMessage(msg)
      [] OTHER -> NilMessage

RECURSIVE buildHistory(_)
buildHistory(messages) ==
    IF messages = << >> THEN << >>
    ELSE (IF convertMessage(Head(messages), FALSE) # NilMessage
          THEN <<convertMessage(Head(messages), FALSE)>> ELSE << >>)
         \o buildHistory(Tail(messages))

\* the four passes that processMessages and processMessagesStruct begin with
Prepared(messages) ==
    alternateRoles(removePrefill(mergeConsecutiveMessages(filterSystemMessages(messages))))

\* processMessages: history and currentMessage
processMessages(messages) ==
    LET nonSystem == Prepared(messages)
        n == Len(nonSystem)
        trailingStart == findTrailingStart(nonSystem)
    IN  IF n = 0 THEN [history |-> << >>, currentMessage |-> NilMessage]
        ELSE IF nonSystem[n].Role = RoleUser
        THEN [history |-> buildHistory(SubSeq(nonSystem, 1, n - 1)),
              currentMessage |-> convertMessage(nonSystem[n], TRUE)]
        ELSE [history |-> buildHistory(SubSeq(nonSystem, 1, trailingStart)),
              currentMessage |->
                  IF trailingStart < n
                  THEN buildMergedToolResultMessage(SubSeq(nonSystem, trailingStart + 1, n))
                  ELSE convertMessage(nonSystem[n], TRUE)]

\* the closure prepend of injectSystemPrompt
Prepend(prompt, entry) ==
    [entry EXCEPT !.content = IF @ # EmptyStr THEN prompt \o <<"\n\n">> \o @ ELSE prompt]

\* injectSystemPrompt
injectSystemPrompt(prompt, conv) ==
    IF prompt = EmptyStr THEN conv
    ELSE IF conv.history # << >> /\ conv.history[1].kind = "userInputMessage"
    THEN [conv EXCEPT !.history[1] = Prepend(prompt, @)]
    ELSE IF conv.currentMessage.kind = "userInputMessage"
    THEN [conv EXCEPT !.currentMessage = Prepend(prompt, @)]
    ELSE [conv EXCEPT !.history = <<UserInputMessage(prompt, 0, {})>> \o @]

\* ConvertRequest of the version with maps: the conversationState
ConvertRequest(messages, thinking) ==
    injectSystemPrompt(injectThinkingMode(thinking, extractSystemPrompt(messages)),
                       processMessages(messages))

\* buildHistoryStruct: the same entries as buildHistory
buildHistoryStruct(messages) == buildHistory(messages)

\* processMessagesStruct: history and currentMessage
processMessagesStruct(messages) ==
    LET nonSystem == Prepared(messages)
        n == Len(nonSystem)
        trailingStart == findTrailingStart(nonSystem)
    IN  IF n = 0
        THEN [history |-> << >>, currentMessage |-> UserInputMessage(<<"Continue">>, 0, {})]
        ELSE IF nonSystem[n].Role = RoleUser
        THEN [history |-> buildHistoryStruct(SubSeq(nonSystem, 1, n - 1)),
              currentMessage |-> buildUserMessage(nonSystem[n], TRUE)]
        ELSE [history |-> buildHistoryStruct(SubSeq(nonSystem, 1, trailingStart)),
              currentMessage |->
                  IF trailingStart < n
                  THEN buildMergedToolResultMessage(SubSeq(nonSystem, trailingStart + 1, n))
                  ELSE UserInputMessage(<<"Continue">>, 0, {})]

\* injectSystemPromptStruct: currentMsg is never nil
injectSystemPromptStruct(prompt, conv) ==
    IF prompt = EmptyStr THEN conv
    ELSE [conv EXCEPT !.currentMessage = Prepend(prompt, @)]

\* ConvertRequest of the version with structs, where injectThinkingMode is
\* commented out
ConvertRequestStruct(messages) ==
    IF extractSystemPrompt(messages) # EmptyStr
    THEN injectSystemPromptStruct(extractSystemPrompt(messages),
                                  processMessagesStruct(messages))
    ELSE processMessagesStruct(messages)

VARIABLES
    kreq,      \* the request: req.Messages and whether req.Thinking enables thinking
    kconv      \* the version of ConvertRequest applied last and its conversationState

requestVars == <<kreq, kconv>>

NoConversation == [version |-> "none"]

\* no request
RequestIdle ==
    /\ kreq = [Messages |-> << >>, Thinking |-> FALSE]
    /\ kconv = NoConversation

\* a request to convert
RequestInit ==
    /\ kreq \in { [Messages |-> Positioned(shapes), Thinking |-> thinking] :
                    shapes \in MessageLists, thinking \in BOOLEAN }
    /\ kconv = NoConversation

ApplyConvertRequest ==
    /\ LET conv == ConvertRequest(kreq.Messages, kreq.Thinking) IN
        kconv' = [version |-> "maps", history |-> conv.history,
                  currentMessage |-> conv.currentMessage]
    /\ UNCHANGED kreq

ApplyConvertRequestStruct ==
    /\ LET conv == ConvertRequestStruct(kreq.Messages) IN
        kconv' = [version |-> "structs", history |-> conv.history,
                  currentMessage |-> conv.currentMessage]
    /\ UNCHANGED kreq

RequestNext == ApplyConvertRequest \/ ApplyConvertRequestStruct

(***************************************************************************)
(* Part VII.  Helper functions of the translators, each applied to one     *)
(* input.                                                                  *)
(***************************************************************************)
\* a JSON number, held in tenths (gjson.Number)
JNumber(tenths) == [Type |-> "Number", tenths |-> tenths]

\* a JSON string (gjson.String)
JString(str) == [Type |-> "String", str |-> str]

\* null, true, false
JLiteral(type) == [Type |-> type]

\* gjson.Result.Int
gjsonInt(v) ==
    CASE v.Type = "Number" -> v.tenths \div 10
      [] v.Type = "True" -> 1
      [] OTHER -> 0

\* variant of isZero that takes no string as zero
isZero_NumbersOnly(v) == v.Type # "String" /\ gjsonInt(v) = 0

\* the closure isZero of sanitizeCodexGrepArgs, for a value that exists
isZero(v) ==
    CASE v.Type = "Number" -> gjsonInt(v) = 0
      [] v.Type = "String" -> v.str \in {"0", "0.0", ""}
      [] OTHER -> gjsonInt(v) = 0

\* sjson.Delete of a top-level key
Delete(obj, key) == [k \in (DOMAIN obj) \ {key} |-> obj[k]]

\* tool-call arguments: whether the string is valid JSON, and its top-level
\* keys with their values
GrepArgs(valid, obj) == [valid |-> valid, obj |-> obj]

\* sanitizeCodexGrepArgs
sanitizeCodexGrepArgs(toolName, args) ==
    LET isKnownGrepTool == toolName \in {"grep", "ripgrep_raw_search"}
        has(k) == k \in DOMAIN args.obj
        looksLikeGrepArgs == has("pattern") /\ has("-C") /\ (has("-A") \/ has("-B"))
    IN  IF ~args.valid THEN args
        ELSE IF ~isKnownGrepTool /\ toolName # "" THEN args
        ELSE IF ~isKnownGrepTool /\ ~looksLikeGrepArgs THEN args
        ELSE IF ~has("-C") \/ (~has("-A") /\ ~has("-B")) THEN args
        ELSE IF ~isZero(args.obj["-C"])
        THEN [args EXCEPT !.obj = Delete(Delete(@, "-A"), "-B")]
        ELSE [args EXCEPT !.obj = Delete(@, "-C")]

\* the values and objects given to sanitizeCodexGrepArgs
GrepCValues ==
    { JNumber(0), JNumber(30), JNumber(5), JString("0"), JString("0.0"), JString(""),
      JString("2"), JLiteral("Null"), JLiteral("True") }

GrepInputs ==
    { [fn |-> "sanitizeCodexGrepArgs", toolName |-> "grep",
       args |-> GrepArgs(FALSE, << >>)] }
    \cup
    { [fn |-> "sanitizeCodexGrepArgs", toolName |-> toolName,
       args |-> GrepArgs(valid, [k \in { p[1] : p \in ps } |->
                                    (CHOOSE p \in ps : p[1] = k)[2]])] :
        toolName \in {"grep", "ripgrep_raw_search", "", "read_file"},
        valid \in {TRUE},
        ps \in { p \cup c \cup a \cup b :
                   p \in {{}, {<<"pattern", JString("x")>>}},
                   c \in {{}} \cup { {<<"-C", v>>} : v \in GrepCValues },
                   a \in {{}, {<<"-A", JNumber(0)>>}, {<<"-A", JNumber(20)>>}},
                   b \in {{}, {<<"-B", JNumber(10)>>}} } }

\* an item of the input array of a Responses-API request
ResponsesInputItem(type, role, content) == [type |-> type, role |-> role, content |-> content]

\* buildResponsesUserMessage: the item, or none when the message has no content
buildResponsesUserMessage(msg) ==
    IF TextsOf(msg.Content) = << >> THEN << >>
    ELSE <<ResponsesInputItem("message", RoleUser, TextsOf(msg.Content))>>

\* convertMessageToResponsesInputWithContext: the items of one message
convertMessageToResponsesInputWithContext(msg) ==
    CASE msg.Role = RoleSystem -> << >>
      [] msg.Role = RoleUser -> buildResponsesUserMessage(msg)
      [] msg.Role = RoleAssistant ->
           (IF CombineTextParts(msg) # EmptyStr
            THEN <<ResponsesInputItem("message", RoleAssistant, <<CombineTextParts(msg)>>)>>
            ELSE << >>)
           \o [i \in 1..msg.ToolCalls |-> ResponsesInputItem("function_call", "", << >>)]
      [] msg.Role = RoleTool ->
           [i \in 1..ToolResultsOf(msg.Content) |->
               ResponsesInputItem("function_call_output", "", << >>)]
      [] OTHER -> << >>

\* the loop of convertToResponsesAPIRequest over req.Messages
RECURSIVE ResponsesInput(_)
ResponsesInput(messages) ==
    IF messages = << >> THEN << >>
    ELSE (IF Head(messages).Role = RoleSystem THEN << >>
          ELSE convertMessageToResponsesInputWithContext(Head(messages)))
         \o ResponsesInput(Tail(messages))

\* convertToResponsesAPIRequest: the keys instructions and input of the payload;
\* a key that is not set has the value << >>
convertToResponsesAPIRequest(req) ==
    [instructions |-> req.Instructions, input |-> ResponsesInput(req.Messages)]

\* the requests given to convertToResponsesAPIRequest
ResponsesRequestInputs ==
    { [fn |-> "convertToResponsesAPIRequest",
       req |-> [Messages |-> Positioned(shapes), Instructions |-> instructions]] :
        shapes \in MessageLists, instructions \in {EmptyStr, <<"I">>} }

\* ir.ContentPart of type reasoning
ReasoningPart(reasoning, signature) ==
    [Type |-> "reasoning", Reasoning |-> reasoning, ThoughtSignature |-> signature]

\* ir.ThinkingConfig of the request: nil, present but off, or on
ThinkingConfigs == {"nil", "off", "on"}

\* the messages of the requests given to GeminiProvider.ConvertRequest
GeminiMessageShapes ==
    { Message(RoleUser, <<TextPart(<<"a">>)>>, 0, {}),
      Message(RoleAssistant, <<TextPart(<<"b">>)>>, 0, {}),
      Message(RoleAssistant, <<ReasoningPart(<<"r">>, <<"g">>), TextPart(<<"b">>)>>, 0, {}),
      Message(RoleAssistant, << >>, 1, {}),
      Message(RoleTool, <<ToolResultPart>>, 0, {}) }

UnifiedChatRequest(messages, thinking) == [Messages |-> messages, Thinking |-> thinking]

GeminiRequestInputs ==
    { [fn |-> "GeminiConvertRequest", req |-> UnifiedChatRequest(messages, thinking),
       orig |-> UnifiedChatRequest(messages, thinking)] :
        messages \in UNION { [1..n -> GeminiMessageShapes] : n \in 0..MaxMessages },
        thinking \in ThinkingConfigs }

\* the index of the last assistant message, 0 when there is none
LastAssistant(messages) ==
    LET idx == { i \in 1..Len(messages) : messages[i].Role = RoleAssistant }
    IN  IF idx = {} THEN 0 ELSE CHOOSE i \in idx : \A j \in idx : j <= i

CheckLastAssistantHasThinking(messages) ==
    LET i == LastAssistant(messages)
    IN  IF i = 0 THEN TRUE
        ELSE IF messages[i].Content = << >> THEN FALSE
        ELSE messages[i].Content[1].Type = "reasoning"

\* the placeholder thinking block of EnsureThinkingConsistency
placeholder == ReasoningPart(EmptyStr, skipThoughtSignatureLiteral)

\* EnsureThinkingConsistency: the elements of the slice's array after the call.
\* The slice it is given and the slice it returns share the array of req.Messages.
EnsureThinkingConsistency(messages) ==
    IF CheckLastAssistantHasThinking(messages) THEN messages
    ELSE [messages EXCEPT ![LastAssistant(messages)].Content = <<placeholder>> \o @]

\* CloseToolLoopForThinking: the slice it returns; it writes to a copy
CloseToolLoopForThinking(messages) ==
    LET last == messages[Len(messages)]
        inToolLoop ==
            /\ last.Role \in {RoleUser, RoleTool}
            /\ \E k \in 1..Len(last.Content) : last.Content[k].Type = "tool_result"
        i == LastAssistant(messages)
        hasThinking == messages[i].Content # << >> /\ messages[i].Content[1].Type = "reasoning"
    IN  IF messages = << >> THEN messages
        ELSE IF ~inToolLoop THEN messages
        ELSE IF i = 0 THEN messages
        ELSE IF ~hasThinking
             THEN messages \o
                  << Message(RoleAssistant, <<TextPart(<<"recovered">>)>>, 0, {}),
                     Message(RoleUser, <<TextPart(<<"continue">>)>>, 0, {}) >>
             ELSE messages

thinkingEnabled(req) == req.Thinking = "on"

\* GeminiProvider.applyMessages: req.Messages after the call
applyMessagesLeaves(req) ==
    IF thinkingEnabled(req) THEN EnsureThinkingConsistency(req.Messages) ELSE req.Messages

\* GeminiProvider.applyMessages: the messages it turns into contents
applyMessages(req) ==
    IF thinkingEnabled(req)
    THEN CloseToolLoopForThinking(EnsureThinkingConsistency(req.Messages))
    ELSE req.Messages

\* a JSON schema is a function from its keys to their values.  The value of
\* "type" says whether it is written as a string or as an array, and names the
\* types; "properties" is a function from names to schemas; "required" is a
\* sequence of names; "description" is a sequence of words.
TypeString(name) == [array |-> FALSE, names |-> <<name>>]
TypeArray(names) == [array |-> TRUE, names |-> names]

\* strings.ToLower, for the type names of the model
ToLower(name) ==
    CASE name = "STRING" -> "string"
      [] name = "OBJECT" -> "object"
      [] OTHER -> name

Restrict(f, keys) == [k \in (DOMAIN f) \cap keys |-> f[k]]

Put(f, key, value) == [k \in (DOMAIN f) \cup {key} |-> IF k = key THEN value ELSE f[k]]

RECURSIVE FilterSeq(_, _)
FilterSeq(seq, keep) ==
    IF seq = << >> THEN << >>
    ELSE (IF Head(seq) \in keep THEN <<Head(seq)>> ELSE << >>) \o FilterSeq(Tail(seq), keep)

\* schema["required"] = newReq, or delete(schema, "required") when newReq is empty
SetRequired(schema, newReq) ==
    IF newReq = << >> THEN Restrict(schema, (DOMAIN schema) \ {"required"})
    ELSE Put(schema, "required", newReq)

allowedFields == {"type", "description", "properties", "required", "items", "enum", "title"}

schemaMarks == {"type", "properties", "items", "enum", "anyOf", "oneOf", "allOf"}

\* cleanSchemaEnhancedRecursive, step 8: the type that is kept
selectedType(type) ==
    LET lower == [i \in 1..Len(type.names) |-> ToLower(type.names[i])]
        kept  == FilterSeq(lower, Range(lower) \ {"null"})
    IN  IF kept = << >> THEN "string" ELSE Head(kept)

typeHasNull(type) == \E i \in 1..Len(type.names) : ToLower(type.names[i]) = "null"

\* cleanSchemaEnhancedRecursive, for schemas without $ref, allOf, anyOf, oneOf,
\* enum and constraint keywords: the schema it leaves and the value it returns
RECURSIVE cleanSchemaEnhancedRecursive(_)
cleanSchemaEnhancedRecursive(schema) ==
    LET \* 1. children
        hasProps == "properties" \in DOMAIN schema
        cleanedProps ==
            [k \in DOMAIN schema.properties |->
                cleanSchemaEnhancedRecursive(schema.properties[k])]
        nullableKeys == { k \in DOMAIN cleanedProps : cleanedProps[k].nullable }
        s1 == IF hasProps
              THEN LET withProps ==
                          Put(schema, "properties",
                              [k \in DOMAIN cleanedProps |-> cleanedProps[k].schema])
                   IN  IF nullableKeys # {} /\ "required" \in DOMAIN schema
                       THEN SetRequired(withProps,
                               FilterSeq(schema.required,
                                         {r \in Range(schema.required) : r \notin nullableKeys}))
                       ELSE withProps
              ELSE IF "items" \in DOMAIN schema
              THEN Put(schema, "items", cleanSchemaEnhancedRecursive(schema.items).schema)
              ELSE schema
        looksLikeSchema == (DOMAIN s1) \cap schemaMarks # {}
        \* 5. whitelist
        s5 == Restrict(s1, allowedFields)
        \* 6. empty object
        emptyObject ==
            /\ "type" \in DOMAIN s5
            /\ ~s5.type.array
            /\ s5.type.names = <<"object">>
            /\ ("properties" \in DOMAIN s5 => DOMAIN s5.properties = {})
        s6 == IF emptyObject
              THEN Put(Put(s5, "properties",
                           [k \in {"reason"} |->
                               [type |-> TypeString("string"),
                                description |-> <<"Reason for calling this tool">>]]),
                       "required", <<"reason">>)
              ELSE s5
        \* 7. align required
        s7 == IF "required" \in DOMAIN s6
              THEN SetRequired(s6,
                      FilterSeq(s6.required,
                                IF "properties" \in DOMAIN s6 THEN DOMAIN s6.properties ELSE {}))
              ELSE s6
        \* 8. type
        nullable == "type" \in DOMAIN s7 /\ typeHasNull(s7.type)
        s8 == IF "type" \in DOMAIN s7
              THEN Put(s7, "type", TypeString(selectedType(s7.type)))
              ELSE s7
        desc == IF "description" \in DOMAIN s8 THEN s8.description ELSE << >>
        s9 == IF nullable /\ "(nullable)" \notin Range(desc)
              THEN Put(s8, "description", desc \o <<"(nullable)">>)
              ELSE s8
    IN  IF looksLikeSchema THEN [schema |-> s9, nullable |-> nullable]
        ELSE [schema |-> s1, nullable |-> FALSE]

\* CleanJsonSchemaEnhanced, for a schema that is not nil and has no $defs,
\* definitions or $ref
CleanJsonSchemaEnhanced(schema) == cleanSchemaEnhancedRecursive(schema).schema

\* property schemas
LeafSchemas ==
    { [type |-> TypeString("string")],
      [type |-> TypeString("STRING")],
      [type |-> TypeArray(<<"string", "null">>)],
      [type |-> TypeString("object"),
       properties |-> [k \in {"x"} |-> [type |-> TypeArray(<<"null", "boolean">>)]],
       required |-> <<"x">>] }

PropertyNames == {"a", "b"}

\* the schemas given to CleanJsonSchemaEnhanced
SchemaInputs ==
    LET objects ==
            { [type |-> TypeString("object"), properties |-> props, required |-> req] :
                props \in UNION { [names -> LeafSchemas] : names \in SUBSET PropertyNames },
                req \in { <<"a">>, <<"a", "b">>, <<"b", "z">> } }
             \cup { [type |-> TypeString("object"), properties |-> props] :
                      props \in [PropertyNames -> LeafSchemas] }
        arrays == { [type |-> TypeString("array"), items |-> item] : item \in LeafSchemas }
    IN  { [fn |-> "CleanJsonSchemaEnhanced", schema |-> schema] : schema \in objects \cup arrays }

\* the marker of the short encoding of a signature in a tool call id
sigMarker == <<"|", "s", "i", "g", ":">>

ThoughtSignatureSeparator == <<"_", "_", "t", "h", "o", "u", "g", "h", "t", "_", "_">>

toolPlaceholder == <<"t", "o", "o", "l">>

\* EncodeToolIDWithSignature, format <id>|sig:<signature>
EncodeToolIDWithSignature(id, signature) ==
    LET tid == TrimSpace(id)
        sig == TrimSpace(signature)
    IN  IF sig = EmptyStr THEN tid
        ELSE (IF tid = EmptyStr THEN toolPlaceholder ELSE tid) \o sigMarker \o sig

\* variant of DecodeToolIDAndSignature that cuts at the last marker
DecodeToolIDAndSignature_LastMarker(encoded) ==
    LET e == TrimSpace(encoded)
        hits == { i \in 0..(Len(e) - Len(sigMarker)) :
                    SubSeq(e, i + 1, i + Len(sigMarker)) = sigMarker }
        idx == IF hits = {} THEN -1 ELSE CHOOSE i \in hits : \A j \in hits : j <= i
    IN  IF e = EmptyStr THEN <<EmptyStr, EmptyStr>>
        ELSE IF idx < 0 THEN <<e, EmptyStr>>
        ELSE <<TrimSpace(SubSeq(e, 1, idx)), TrimSpace(From(e, idx + Len(sigMarker)))>>

\* DecodeToolIDAndSignature, format <id>|sig:<signature>: the pair (id, signature)
DecodeToolIDAndSignature(encoded) ==
    LET e == TrimSpace(encoded)
        idx == Index(e, sigMarker)
    IN  IF e = EmptyStr THEN <<EmptyStr, EmptyStr>>
        ELSE IF idx < 0 THEN <<e, EmptyStr>>
        ELSE <<TrimSpace(SubSeq(e, 1, idx)), TrimSpace(From(e, idx + Len(sigMarker)))>>

\* EncodeToolIDWithSignature, format <id>__thought__<signature>
EncodeToolIDWithSignatureLong(toolID, signature) ==
    IF signature = EmptyStr THEN toolID
    ELSE toolID \o ThoughtSignatureSeparator \o signature

\* DecodeToolIDAndSignature, format <id>__thought__<signature>:
\* strings.SplitN(encodedID, ThoughtSignatureSeparator, 2)
DecodeToolIDAndSignatureLong(encodedID) ==
    LET idx == Index(encodedID, ThoughtSignatureSeparator)
    IN  IF encodedID = EmptyStr \/ idx < 0 THEN <<encodedID, EmptyStr>>
        ELSE <<SubSeq(encodedID, 1, idx),
               From(encodedID, idx + Len(ThoughtSignatureSeparator))>>

\* tool call ids and signatures given to the encoders
ToolIDs ==
    { EmptyStr, <<"a">>, <<" ", "a">>, <<"a">> \o sigMarker \o <<"b">>,
      <<"x", "_", "_", "t", "h", "o", "u", "g", "h", "t">>,
      <<"a">> \o ThoughtSignatureSeparator \o <<"b">>, <<"a", "_">>, <<"a", "|">> }

ToolSignatures ==
    { EmptyStr, <<"S">>, <<"S", " ">>, <<" ">>, <<"s">> \o sigMarker \o <<"t">>,
      ThoughtSignatureSeparator, <<"_", "S">> }

ToolIDInputs ==
    { [fn |-> "ToolIDRoundTrip", id |-> id, sig |-> sig] : id \in ToolIDs, sig \in ToolSignatures }

\* the strings given to HasValidThoughtSignature
ValidityInputs ==
    { [fn |-> "HasValidThoughtSignature", signature |-> sig] :
        sig \in SignatureInputs
                \cup { Repeat(" ", minThoughtSignatureLength),
                       Repeat("a", minThoughtSignatureLength - 1),
                       Pad(Repeat("a", minThoughtSignatureLength)) } }

\* unicode.ToLower, for the letters of the model
LowerChar(c) ==
    CASE c = "A" -> "a"
      [] c = "C" -> "c"
      [] c = "G" -> "g"
      [] c = "I" -> "i"
      [] c = "K" -> "k"
      [] c = "L" -> "l"
      [] c = "O" -> "o"
      [] c = "Q" -> "q"
      [] c = "S" -> "s"
      [] c = "V" -> "v"
      [] OTHER -> c

\* strings.ToLower on a sequence of characters
ToLowerChars(str) == [i \in 1..Len(str) |-> LowerChar(str[i])]

\* strings.ReplaceAll(str, old, new) for single characters
ReplaceAllChar(str, old, new) == [i \in 1..Len(str) |-> IF str[i] = old THEN new ELSE str[i]]

\* the cases of providerIDToLabel: provider id (lower case) and label
providerLabels ==
    {
       <<<<"g", "e", "m", "i", "n", "i", "-", "c", "l", "i">>,
         <<"G", "e", "m", "i", "n", "i", " ", "C", "L", "I">>>>,
       <<<<"a", "n", "t", "i", "g", "r", "a", "v", "i", "t", "y">>,
         <<"A", "n", "t", "i", "g", "r", "a", "v", "i", "t", "y">>>>,
       <<<<"v", "e", "r", "t", "e", "x">>,
         <<"V", "e", "r", "t", "e", "x">>>>,
       <<<<"a", "i", "s", "t", "u", "d", "i", "o">>,
         <<"A", "I", " ", "S", "t", "u", "d", "i", "o">>>>,
       <<<<"c", "l", "a", "u", "d", "e">>,
         <<"C", "l", "a", "u", "d", "e">>>>,
       <<<<"c", "o", "d", "e", "x">>,
         <<"C", "o", "d", "e", "x">>>>,
       <<<<"c", "l", "i", "n", "e">>,
         <<"C", "l", "i", "n", "e">>>>,
       <<<<"q", "w", "e", "n">>,
         <<"Q", "w", "e", "n">>>>,
       <<<<"k", "i", "r", "o">>,
         <<"K", "i", "r", "o">>>>,
       <<<<"o", "p", "e", "n", "a", "i">>,
         <<"O", "p", "e", "n", "A", "I">>>>,
       <<<<"o", "p", "e", "n", "a", "i", "-", "c", "o", "m", "p", "a", "t", "i",
           "b", "i", "l", "i", "t", "y">>,
         <<"O", "p", "e", "n", "A", "I">>>> }

\* the cases of labelToProviderID: label (lower case) and provider id
labelProviders ==
    {
       <<<<"g", "e", "m", "i", "n", "i", " ", "c", "l", "i">>,
         <<"g", "e", "m", "i", "n", "i", "-", "c", "l", "i">>>>,
       <<<<"a", "n", "t", "i", "g", "r", "a", "v", "i", "t", "y">>,
         <<"a", "n", "t", "i", "g", "r", "a", "v", "i", "t", "y">>>>,
       <<<<"v", "e", "r", "t", "e", "x">>,
         <<"v", "e", "r", "t", "e", "x">>>>,
       <<<<"a", "i", " ", "s", "t", "u", "d", "i", "o">>,
         <<"a", "i", "s", "t", "u", "d", "i", "o">>>>,
       <<<<"c", "l", "a", "u", "d", "e">>,
         <<"c", "l", "a", "u", "d", "e">>>>,
       <<<<"c", "o", "d", "e", "x">>,
         <<"c", "o", "d", "e", "x">>>>,
       <<<<"c", "l", "i", "n", "e">>,
         <<"c", "l", "i", "n", "e">>>>,
       <<<<"q", "w", "e", "n">>,
         <<"q", "w", "e", "n">>>>,
       <<<<"k", "i", "r", "o">>,
         <<"k", "i", "r", "o">>>>,
       <<<<"o", "p", "e", "n", "a", "i">>,
         <<"o", "p", "e", "n", "a", "i">>>> }

\* providerIDToLabel
providerIDToLabel(provider) ==
    LET hits == { row \in providerLabels : row[1] = ToLowerChars(provider) }
    IN  IF hits = {} THEN provider ELSE (CHOOSE row \in hits : TRUE)[2]

\* labelToProviderID
labelToProviderID(label) ==
    LET key  == ToLowerChars(TrimSpace(label))
        hits == { row \in labelProviders : row[1] = key }
    IN  IF hits = {} THEN ToLowerChars(ReplaceAllChar(TrimSpace(label), " ", "-"))
        ELSE (CHOOSE row \in hits : TRUE)[2]

\* the provider ids given to providerIDToLabel: those of its cases, one of them
\* capitalised, and ids that it has no case for
ProviderIDInputs ==
    { [fn |-> "ProviderLabelRoundTrip", provider |-> provider] :
        provider \in { row[1] : row \in providerLabels }
                     \cup { <<"C", "l", "a", "u", "d", "e">>,
                            <<"m", "y", " ", "l", "l", "m">>,
                            <<"l", "o", "c", "a", "l">> } }

\* the functions of this part with their arguments
FuncInputs == GrepInputs \cup ResponsesRequestInputs \cup GeminiRequestInputs
              \cup SchemaInputs \cup ToolIDInputs
              \cup ValidityInputs \cup ProviderIDInputs

VARIABLES
    finput,   \* the function to apply and its arguments
    fresult   \* what the function returned, once it has been applied

funcVars == <<finput, fresult>>

NotApplied == [applied |-> FALSE]

Returned(value) == [applied |-> TRUE, value |-> value]

\* no function is being applied
FuncIdle ==
    /\ finput = [fn |-> "none"]
    /\ fresult = NotApplied

\* a function and its arguments
FuncInit ==
    /\ finput \in FuncInputs
    /\ fresult = NotApplied

ApplySanitizeCodexGrepArgs ==
    /\ finput.fn = "sanitizeCodexGrepArgs"
    /\ fresult' = Returned(sanitizeCodexGrepArgs(finput.toolName, finput.args))
    /\ UNCHANGED finput

ApplyConvertToResponsesAPIRequest ==
    /\ finput.fn = "convertToResponsesAPIRequest"
    /\ fresult' = Returned(convertToResponsesAPIRequest(finput.req))
    /\ UNCHANGED finput

\* GeminiProvider.ConvertRequest: the request is given by pointer, and what
\* applyMessages writes through the slice req.Messages stays in the request
ApplyGeminiConvertRequest ==
    /\ finput.fn = "GeminiConvertRequest"
    /\ fresult = NotApplied
    /\ fresult' = Returned(applyMessages(finput.req))
    /\ finput' = [finput EXCEPT !.req.Messages = applyMessagesLeaves(finput.req)]

ApplyCleanJsonSchemaEnhanced ==
    /\ finput.fn = "CleanJsonSchemaEnhanced"
    /\ fresult' = Returned(CleanJsonSchemaEnhanced(finput.schema))
    /\ UNCHANGED finput

\* a tool call id encoded with its signature and decoded again, short format
ApplyToolIDRoundTrip ==
    /\ finput.fn = "ToolIDRoundTrip"
    /\ fresult' = Returned([format |-> "sig",
                            pair |-> DecodeToolIDAndSignature(
                                        EncodeToolIDWithSignature(finput.id, finput.sig))])
    /\ UNCHANGED finput

\* the same, long format
ApplyToolIDRoundTripLong ==
    /\ finput.fn = "ToolIDRoundTrip"
    /\ fresult' = Returned([format |-> "thought",
                            pair |-> DecodeToolIDAndSignatureLong(
                                        EncodeToolIDWithSignatureLong(finput.id, finput.sig))])
    /\ UNCHANGED finput

ApplyHasValidThoughtSignature ==
    /\ finput.fn = "HasValidThoughtSignature"
    /\ fresult' = Returned(HasValidThoughtSignature(finput.signature))
    /\ UNCHANGED finput

\* a provider id turned into its label and the label back into an id
ApplyProviderLabelRoundTrip ==
    /\ finput.fn = "ProviderLabelRoundTrip"
    /\ fresult' = Returned([label |-> providerIDToLabel(finput.provider),
                            provider |-> labelToProviderID(providerIDToLabel(finput.provider))])
    /\ UNCHANGED finput

\* one of the functions is applied to its arguments
FuncNext ==
    \/ ApplySanitizeCodexGrepArgs
    \/ ApplyConvertToResponsesAPIRequest
    \/ ApplyGeminiConvertRequest
    \/ ApplyCleanJsonSchemaEnhanced
    \/ ApplyToolIDRoundTrip
    \/ ApplyToolIDRoundTripLong
    \/ ApplyHasValidThoughtSignature
    \/ ApplyProviderLabelRoundTrip

(***************************************************************************)
(* Part VIII.  Thought-signature injection: response streams of a session  *)
(* store signatures in the cache of Part II, and                           *)
(* AntigravityProvider.ConvertRequest reads the cache and injects the      *)
(* signature into the functionCall parts of the request it builds.         *)
(***************************************************************************)
SignatureA == Repeat("a", minThoughtSignatureLength)
SignatureB == Repeat("b", minThoughtSignatureLength)
SignatureX == Repeat("x", minThoughtSignatureLength)

\* a part of a Gemini request content
FunctionCallPart(hasSig, sig) ==
    [functionCall |-> TRUE, hasSig |-> hasSig, thoughtSignature |-> sig]
TextOnlyPart == [functionCall |-> FALSE, hasSig |-> FALSE, thoughtSignature |-> EmptyStr]

\* the "contents" of the inner requests given to injectThoughtSignature
RequestContents ==
    { << <<TextOnlyPart, FunctionCallPart(TRUE, SignatureX)>>,
         <<FunctionCallPart(FALSE, EmptyStr), FunctionCallPart(TRUE, <<" ">>)>> >> }

\* a part of candidates.0.content.parts of a response chunk
ChunkPart(camel, snake) == [thoughtSignature |-> camel, thought_signature |-> snake]

\* a response line: whether its payload is valid JSON, and the parts
StreamLine(valid, parts) == [valid |-> valid, parts |-> parts]

StreamLines ==
    { StreamLine(TRUE, <<ChunkPart(SignatureA, EmptyStr)>>),
      StreamLine(TRUE, <<ChunkPart(<<"a", "b">>, EmptyStr),
                         ChunkPart(EmptyStr, Pad(SignatureB))>>) }

\* session ids of the requests
InjectSessions == { <<"s", "1">>, <<" ">> }

\* cacheThoughtSignatureFromAntigravityChunk: the signature of one part
PartSignature(part) ==
    IF TrimSpace(part.thoughtSignature) # EmptyStr
    THEN TrimSpace(part.thoughtSignature)
    ELSE TrimSpace(part.thought_signature)

\* cacheThoughtSignatureFromAntigravityChunk: the first valid signature of the
\* parts, or "" when there is none
RECURSIVE FirstValidSignature(_)
FirstValidSignature(parts) ==
    IF parts = << >> THEN EmptyStr
    ELSE IF HasValidThoughtSignature(PartSignature(Head(parts)))
         THEN PartSignature(Head(parts))
         ELSE FirstValidSignature(Tail(parts))

\* injectThoughtSignature, one part: a functionCall part keeps a non-blank
\* thoughtSignature and otherwise gets sig
injectPart(part, sig) ==
    IF part.functionCall /\ ~(part.hasSig /\ TrimSpace(part.thoughtSignature) # EmptyStr)
    THEN [part EXCEPT !.hasSig = TRUE, !.thoughtSignature = sig]
    ELSE part

\* injectThoughtSignature, given what GetSessionThoughtSignature returned
injectThoughtSignature(contents, sig) ==
    IF sig = EmptyStr THEN contents
    ELSE [i \in 1..Len(contents) |->
            [j \in 1..Len(contents[i]) |-> injectPart(contents[i][j], sig)]]

VARIABLES
    areq    \* per goroutine: the request it is building or has built

injectVars == <<areq>>

NoBuild == [phase |-> "none"]

Building(contents) == [phase |-> "building", contents |-> contents]

Built(sessionID, contents, out, seqAtIssue, builtAt) ==
    [phase |-> "built", sessionID |-> sessionID, contents |-> contents, out |-> out,
     seqAtIssue |-> seqAtIssue, builtAt |-> builtAt]

InjectInit == areq = [p \in Procs |-> NoBuild]

CanBegin(p) == CanCall(p) /\ areq[p].phase # "building"

\* ExecuteStream's reader: cacheThoughtSignatureFromAntigravityChunk(sessionID, line)
StreamChunk(p, sid, line) ==
    /\ CanBegin(p)
    /\ IF /\ TrimSpace(sid) # EmptyStr
          /\ line.valid
          /\ FirstValidSignature(line.parts) # EmptyStr
       THEN CacheCall(p, sid, FirstValidSignature(line.parts))
       ELSE /\ ops' = ops + 1
            /\ local' = [local EXCEPT ![p] = IdleLocal]
            /\ pc' = [pc EXCEPT ![p] = "cache_done"]
            /\ UNCHANGED <<bySession, now, lastWrite>>
    /\ UNCHANGED areq

\* AntigravityProvider.ConvertRequest up to the cache read: without a session id
\* nothing is injected
BeginConvertRequest(p, sid, contents) ==
    /\ CanBegin(p)
    /\ IF TrimSpace(sid) # EmptyStr
       THEN /\ GetCall(p, TrimSpace(sid))
            /\ areq' = [areq EXCEPT ![p] = Building(contents)]
       ELSE /\ ops' = ops + 1
            /\ local' = [local EXCEPT ![p] = IdleLocal]
            /\ pc' = [pc EXCEPT ![p] = "idle"]
            /\ areq' = [areq EXCEPT ![p] = Built(EmptyStr, contents, contents, 0, now)]
            /\ UNCHANGED <<bySession, now, lastWrite>>

\* AntigravityProvider.ConvertRequest after GetSessionThoughtSignature returned
FinishConvertRequest(p) ==
    /\ pc[p] = "get_done"
    /\ areq[p].phase = "building"
    /\ areq' = [areq EXCEPT ![p] =
          Built(local[p].sessionID, areq[p].contents,
                injectThoughtSignature(areq[p].contents, local[p].ret),
                local[p].seqAtIssue, now)]
    /\ UNCHANGED cacheVars

InjectNext ==
    \/ \E p \in Procs, sid \in InjectSessions, line \in StreamLines : StreamChunk(p, sid, line)
    \/ \E p \in Procs : CacheStore(p) /\ UNCHANGED areq
    \/ \E p \in Procs, sid \in InjectSessions, contents \in RequestContents :
          BeginConvertRequest(p, sid, contents)
    \/ \E p \in Procs : GetRead(p) /\ UNCHANGED areq
    \/ \E p \in Procs : GetCheck(p) /\ UNCHANGED areq
    \/ \E p \in Procs : GetDelete(p) /\ UNCHANGED areq
    \/ \E p \in Procs : FinishConvertRequest(p)
    \/ Tick /\ UNCHANGED areq

(***************************************************************************)
(* Part IX.  The canonical-translator switch (sdk/translator): one caller  *)
(* of TranslateRequestPairE, and callers of EnableCanonicalTranslator and  *)
(* SetCanonicalAdapter running concurrently with it.                       *)
(***************************************************************************)
\* calls of EnableCanonicalTranslator and SetCanonicalAdapter in one run
MaxConfigCalls == 3
\* calls of TranslateRequestPairE in one run
MaxPairCalls == 2

\* the adapters that SetCanonicalAdapter is given
Adapters == {"adapterA", "adapterB"}

\* atomic.Value that nothing was stored in
NoAdapter == "nil"

LegacyBackend == [kind |-> "legacy", adapter |-> NoAdapter]

CanonicalBackend(adapter) == [kind |-> "canonical", adapter |-> adapter]

NoBackend == [kind |-> "none", adapter |-> NoAdapter]

VARIABLES
    canonicalEnabled,  \* atomic.Bool
    canonicalAdapter,  \* atomic.Value
    tpc,               \* where the caller of TranslateRequestPairE is
    tres,              \* the backends its two translations used, and its error
    tcalls             \* calls begun: of the two setters, and of TranslateRequestPairE

pairVars == <<canonicalEnabled, canonicalAdapter, tpc, tres, tcalls>>

NoPair == [original |-> NoBackend, translated |-> NoBackend, err |-> FALSE]

PairInit ==
    /\ canonicalEnabled = FALSE
    /\ canonicalAdapter = NoAdapter
    /\ tpc = "idle"
    /\ tres = NoPair
    /\ tcalls = [config |-> 0, pair |-> 0]

\* EnableCanonicalTranslator(enabled)
EnableCanonicalTranslator(enabled) ==
    /\ tcalls.config < MaxConfigCalls
    /\ tcalls' = [tcalls EXCEPT !.config = @ + 1]
    /\ canonicalEnabled' = enabled
    /\ UNCHANGED <<canonicalAdapter, tpc, tres>>

\* SetCanonicalAdapter(adapter)
SetCanonicalAdapter(adapter) ==
    /\ tcalls.config < MaxConfigCalls
    /\ tcalls' = [tcalls EXCEPT !.config = @ + 1]
    /\ canonicalAdapter' = adapter
    /\ UNCHANGED <<canonicalEnabled, tpc, tres>>

\* TranslateRequestPairE is called
PairBegin ==
    /\ tpc \in {"idle", "done"}
    /\ tcalls.pair < MaxPairCalls
    /\ tcalls' = [tcalls EXCEPT !.pair = @ + 1]
    /\ tpc' = "original_enabled"
    /\ tres' = NoPair
    /\ UNCHANGED <<canonicalEnabled, canonicalAdapter>>

\* TranslateRequestE: canonicalEnabled.Load(); the legacy translator when it is off
LoadEnabled(which) ==
    /\ tpc = which \o "_enabled"
    /\ IF canonicalEnabled
       THEN /\ tpc' = which \o "_adapter"
            /\ UNCHANGED tres
       ELSE /\ tres' = [tres EXCEPT ![which] = LegacyBackend]
            /\ tpc' = IF which = "original" THEN "translated_enabled" ELSE "done"
    /\ UNCHANGED <<canonicalEnabled, canonicalAdapter, tcalls>>

\* TranslateRequestE: getCanonicalAdapter(); errCanonicalNotConfigured without
\* an adapter, else the adapter translates
LoadAdapter(which) ==
    /\ tpc = which \o "_adapter"
    /\ IF canonicalAdapter = NoAdapter
       THEN /\ tres' = [NoPair EXCEPT !.err = TRUE]
            /\ tpc' = "done"
       ELSE /\ tres' = [tres EXCEPT ![which] = CanonicalBackend(canonicalAdapter)]
            /\ tpc' = IF which = "original" THEN "translated_enabled" ELSE "done"
    /\ UNCHANGED <<canonicalEnabled, canonicalAdapter, tcalls>>

PairNext ==
    \/ \E enabled \in BOOLEAN : EnableCanonicalTranslator(enabled)
    \/ \E adapter \in Adapters : SetCanonicalAdapter(adapter)
    \/ PairBegin
    \/ \E which \in {"original", "translated"} : LoadEnabled(which)
    \/ \E which \in {"original", "translated"} : LoadAdapter(which)

(***************************************************************************)
(* Part X.  The legacy OpenAI-source converter (executor:                  *)
(* TranslateOpenAIResponseStreamForced on one OpenAIStreamState).          *)
(***************************************************************************)
\* NewOpenAIStreamState
NewOpenAIStreamState ==
    [ReasoningCharsAccum    |-> 0,
     ToolCallIDMap          |-> << >>,
     ToolCallSentHeader     |-> {},
     OutputIndexToToolIndex |-> << >>,
     NextToolCallIndex      |-> 0]

\* "Handle Tool Call Indexing": output_index -> tool_calls index
MapOutputIndex(st, event) ==
    LET outputIdx == event.ToolCallIndex IN
    IF event.Type \in {EventTypeToolCall, EventTypeToolCallDelta}
    THEN IF outputIdx \in DOMAIN st.OutputIndexToToolIndex
         THEN [idx |-> st.OutputIndexToToolIndex[outputIdx],
               map |-> st.OutputIndexToToolIndex, next |-> st.NextToolCallIndex]
         ELSE IF event.Type = EventTypeToolCall
              THEN [idx |-> st.NextToolCallIndex,
                    map |-> (outputIdx :> st.NextToolCallIndex) @@ st.OutputIndexToToolIndex,
                    next |-> st.NextToolCallIndex + 1]
              ELSE [idx |-> outputIdx,
                    map |-> st.OutputIndexToToolIndex, next |-> st.NextToolCallIndex]
    ELSE [idx |-> outputIdx, map |-> st.OutputIndexToToolIndex, next |-> st.NextToolCallIndex]

\* "On finish": the finish_reason fix and the reasoning-token estimate.  The
\* state has no field that records a finish, and no step drops a Finish event.
OnFinish(st, event) ==
    IF event.Type = EventTypeFinish
    THEN [event EXCEPT
            !.FinishReason = IF st.NextToolCallIndex > 0 /\ event.FinishReason = FinishReasonStop
                             THEN FinishReasonToolCalls ELSE event.FinishReason,
            !.Usage = SynthUsage(st, event.Usage)]
    ELSE event

\* one iteration of the "openai", "cline" loop of
\* TranslateOpenAIResponseStreamForced (the second item_id lookup of the
\* ToolCall branch repeats the first and changes nothing)
ForcedProcessEvent(st, event) ==
    LET st1 == [st EXCEPT !.ReasoningCharsAccum = AccumReasoning(st, event)]
        res == ResolveToolCallID(st1, event)
        st2 == [st1 EXCEPT !.ToolCallIDMap = res.map]
        ev3 == OnFinish(st2, event)
        lin == MapOutputIndex(st2, event)
        st4 == [st2 EXCEPT !.OutputIndexToToolIndex = lin.map, !.NextToolCallIndex = lin.next]
        hdr == StripHeader(st4, event.Type, res.tc, lin.idx)
        st5 == [st4 EXCEPT !.ToolCallSentHeader = hdr.sent]
        ev5 == [ev3 EXCEPT !.ToolCall = hdr.tc]
        r   == ToOpenAIChunk(ev5, lin.idx)
    IN  [st |-> st5, chunk |-> r.chunk, err |-> r.err]

RECURSIVE ForcedConvertFrom(_, _, _, _)
\* the loop over the events of one upstream chunk; chunks are logged with the
\* stream position of the event they came from
ForcedConvertFrom(st, events, pos, chunks) ==
    IF events = << >> THEN [st |-> st, chunks |-> chunks, err |-> FALSE]
    ELSE CHOOSE out \in
           { IF r.err THEN [st |-> r.st, chunks |-> << >>, err |-> TRUE]
             ELSE ForcedConvertFrom(r.st, Tail(events), pos + 1,
                 IF r.chunk = NoChunk THEN chunks
                 ELSE Append(chunks, [chunk |-> r.chunk, pos |-> pos + 1, event |-> Head(events)]))
             : r \in {ForcedProcessEvent(st, Head(events))} } : TRUE

VARIABLES
    forcedState,    \* the *OpenAIStreamState of the stream
    forcedEmitted,  \* chunks returned so far, in order
    forcedHistory,  \* IR events the loop has processed so far, in order
    forcedFailed    \* a call returned an error: the stream is over

forcedVars == <<forcedState, forcedEmitted, forcedHistory, forcedFailed>>

ForcedInit ==
    /\ forcedState = NewOpenAIStreamState
    /\ forcedEmitted = << >>
    /\ forcedHistory = << >>
    /\ forcedFailed = FALSE

\* TranslateOpenAIResponseStreamForced(to = "openai"|"cline", chunk, ..., state):
\* one upstream chunk, parsed into events by ParseOpenAIChunk, is converted
TranslateOpenAIResponseStreamForced(events) ==
    /\ ~forcedFailed
    /\ Len(forcedHistory) + Len(events) <= MaxEvents
    /\ LET r == ForcedConvertFrom(forcedState, events, Len(forcedHistory), << >>) IN
        /\ forcedState' = r.st
        /\ forcedEmitted' = forcedEmitted \o r.chunks
        /\ forcedHistory' = forcedHistory \o ProcessedPrefix(events)
        /\ forcedFailed' = r.err

ForcedNext == \E events \in Batches : TranslateOpenAIResponseStreamForced(events)

(***************************************************************************)
(* Part XI.  The request loop of ExecuteStream (AntigravityExecutorV2):    *)
(* attempts and base-URL fallback.                                         *)
(***************************************************************************)
\* bounds of the model: antigravityRetryAttempts and len(baseURLs)
MaxAttempts == 3
MaxBaseURLs == 3

StatusTooManyRequests == 429

\* what httpClient.Do and the status checks see: a transport error, a 2xx
\* response, or a non-2xx response with its status and the value of
\* antigravityShouldRetryNoCapacity(status, body)
TransportError == [kind |-> "error"]
StreamOpened   == [kind |-> "2xx"]
NonOK(status, noCapacity) == [kind |-> "non2xx", status |-> status, noCapacity |-> noCapacity]
UpstreamAnswers ==
    {TransportError, StreamOpened}
        \cup { NonOK(status, nc) : status \in {StatusTooManyRequests, 500, 503}, nc \in BOOLEAN }

\* variant that allows one more round than attempts
MoreAttempts_OneTooMany(attempt, attempts) == attempt < attempts

\* "if attempt+1 < attempts": another round of the attempt loop follows
MoreAttempts(attempt, attempts) == attempt + 1 < attempts

\* "if idx+1 < len(baseURLs)": a fallback base URL is left in this round
MoreBaseURLs(idx, n) == idx + 1 < n

VARIABLE retry  \* the locals of one ExecuteStream call and the requests it issued

retryVars == <<retry>>

RetryIdle == [pc |-> "idle"]

RetryInit == retry = RetryIdle

\* the result of the function once it has returned
RetryReturn(r, result) == [r EXCEPT !.pc = "returned", !.result = result]

\* after the loop over baseURLs (left by "break"): the checks of lastStatus and
\* lastErr at the end of the round, else the next round of the attempt loop
AfterBaseURLs(r) ==
    IF r.lastStatus # 0 THEN RetryReturn(r, "statusErr")
    ELSE IF r.lastErr THEN RetryReturn(r, "lastErr")
    ELSE IF r.attempt + 1 < r.attempts THEN [r EXCEPT !.attempt = @ + 1, !.idx = 0]
    ELSE RetryReturn(r, "no base url available")

\* ExecuteStream reaches attemptLoop with attempts and baseURLs computed
ExecuteStreamBegin(attempts, n) ==
    /\ retry.pc = "idle"
    /\ retry' = [pc |-> "request", attempts |-> attempts, baseURLs |-> n, attempt |-> 0,
                 idx |-> 0, requests |-> 0, lastStatus |-> 0, lastErr |-> FALSE,
                 result |-> ""]

\* one iteration of the loop over baseURLs: httpClient.Do(httpReq) and the
\* handling of its answer
UpstreamRequest(answer) ==
    /\ retry.pc = "request"
    /\ LET r == [retry EXCEPT !.requests = @ + 1] IN
       retry' =
         CASE answer.kind = "error" ->
                LET r1 == [r EXCEPT !.lastErr = TRUE] IN
                IF MoreBaseURLs(r.idx, r.baseURLs) THEN [r1 EXCEPT !.idx = @ + 1]
                ELSE RetryReturn(r1, "errDo")
           [] answer.kind = "2xx" -> RetryReturn(r, "stream")
           [] OTHER ->
                LET r1 == [r EXCEPT !.lastStatus = answer.status] IN
                IF answer.status = StatusTooManyRequests /\ MoreBaseURLs(r.idx, r.baseURLs)
                THEN [r1 EXCEPT !.idx = @ + 1]
                ELSE IF answer.noCapacity
                     THEN IF MoreBaseURLs(r.idx, r.baseURLs) THEN [r1 EXCEPT !.idx = @ + 1]
                          ELSE IF MoreAttempts(r.attempt, r.attempts)
                               THEN [r1 EXCEPT !.pc = "wait"]
                               ELSE AfterBaseURLs(r1)
                     ELSE AfterBaseURLs(r1)

\* antigravityWait(ctx, delay): the delay elapses, or the context is cancelled
\* first and ExecuteStream returns errWait
RetryWait(ctxDone) ==
    /\ retry.pc = "wait"
    /\ retry' = IF ctxDone THEN RetryReturn(retry, "errWait")
                ELSE [retry EXCEPT !.pc = "request", !.attempt = @ + 1, !.idx = 0]

RetryNext ==
    \/ \E attempts \in 1..MaxAttempts, n \in 1..MaxBaseURLs : ExecuteStreamBegin(attempts, n)
    \/ \E answer \in UpstreamAnswers : UpstreamRequest(answer)
    \/ \E c \in BOOLEAN : RetryWait(c)

(***************************************************************************)
(* Specifications.                                                         *)
(***************************************************************************)
vars == <<streamVars, cacheVars, execVars, respVars, parseVars, kiroVars, requestVars,
              funcVars, injectVars, pairVars, forcedVars, retryVars>>

Init == StreamInit /\ CacheInit /\ ExecInit /\ ResponsesInit /\ ParseIdle /\ KiroIdle
        /\ RequestIdle /\ FuncIdle /\ InjectInit /\ PairInit /\ ForcedInit /\ RetryInit

\* one stream translated for an OpenAI/Cline client
Next == StreamNext /\ UNCHANGED <<cacheVars, execVars, respVars, parseVars, kiroVars, requestVars,
              funcVars, injectVars, pairVars, forcedVars, retryVars>>

Spec == Init /\ [][Next]_vars

\* goroutines using the thought-signature cache
CacheSpecNext ==
    CacheNext /\ UNCHANGED <<streamVars, execVars, respVars, parseVars, kiroVars, requestVars,
              funcVars, injectVars, pairVars, forcedVars, retryVars>>

CacheSpec == Init /\ [][CacheSpecNext]_vars

\* one streaming response read by ExecuteStream's goroutine
ExecSpecNext ==
    ExecNext /\ UNCHANGED <<emitted, history, phase, okLen, now, pc, local, ops, respVars,
                            parseVars, kiroVars, requestVars,
              funcVars, injectVars, pairVars, forcedVars, retryVars>>

ExecSpec == Init /\ [][ExecSpecNext]_vars

\* the same, where the scheduler runs the reader goroutine whenever it can take a
\* step, and a receiving consumer receives
ExecFairSpec ==
    ExecSpec /\ WF_vars(ReaderStep /\ UNCHANGED <<emitted, history, phase, okLen, now, pc,
                                                   local, ops, respVars, parseVars,
                                                   kiroVars, requestVars,
              funcVars, injectVars, pairVars, forcedVars, retryVars>>)

\* one stream converted for a Responses-API client
ResponsesSpecNext ==
    ResponsesNext /\ UNCHANGED <<streamVars, cacheVars, execVars, parseVars, kiroVars, requestVars,
              funcVars, injectVars, pairVars, forcedVars, retryVars>>

ResponsesSpec == Init /\ [][ResponsesSpecNext]_vars

\* one chunk given to the chunk parsers
ParseSpecInit ==
    StreamInit /\ CacheInit /\ ExecInit /\ ResponsesInit /\ ParseInit /\ KiroIdle
    /\ RequestIdle /\ FuncIdle /\ InjectInit /\ PairInit /\ ForcedInit /\ RetryInit

ParseSpecNext ==
    ParseNext /\ UNCHANGED <<streamVars, cacheVars, execVars, respVars, kiroVars, requestVars,
              funcVars, injectVars, pairVars, forcedVars, retryVars>>

ParseSpec == ParseSpecInit /\ [][ParseSpecNext]_vars

\* one Kiro content string arriving in chunks
KiroSpecInit ==
    StreamInit /\ CacheInit /\ ExecInit /\ ResponsesInit /\ ParseIdle /\ KiroInit
    /\ RequestIdle /\ FuncIdle /\ InjectInit /\ PairInit /\ ForcedInit /\ RetryInit

KiroSpecNext ==
    KiroNext /\ UNCHANGED <<streamVars, cacheVars, execVars, respVars, parseVars, requestVars,
                          funcVars, injectVars, pairVars, forcedVars, retryVars>>

KiroSpec == KiroSpecInit /\ [][KiroSpecNext]_vars

\* the tool-use events of one Kiro stream
KiroToolSpecNext ==
    KiroToolNext /\ UNCHANGED <<streamVars, cacheVars, execVars, respVars, parseVars,
                                requestVars, funcVars, injectVars, pairVars, forcedVars,
                                retryVars>>

KiroToolSpec == Init /\ [][KiroToolSpecNext]_vars

\* one request given to the Kiro request builder
RequestSpecInit ==
    StreamInit /\ CacheInit /\ ExecInit /\ ResponsesInit /\ ParseIdle /\ KiroIdle
    /\ RequestInit /\ FuncIdle /\ InjectInit /\ PairInit /\ ForcedInit /\ RetryInit

RequestSpecNext ==
    RequestNext /\ UNCHANGED <<streamVars, cacheVars, execVars, respVars, parseVars, kiroVars,
                             funcVars, injectVars, pairVars, forcedVars, retryVars>>

RequestSpec == RequestSpecInit /\ [][RequestSpecNext]_vars

\* one helper function applied to one input
FuncSpecInit ==
    StreamInit /\ CacheInit /\ ExecInit /\ ResponsesInit /\ ParseIdle /\ KiroIdle
    /\ RequestIdle /\ FuncInit /\ InjectInit /\ PairInit /\ ForcedInit /\ RetryInit

FuncSpecNext ==
    FuncNext /\ UNCHANGED <<streamVars, cacheVars, execVars, respVars, parseVars, kiroVars,
                            requestVars, injectVars, pairVars, forcedVars, retryVars>>

FuncSpec == FuncSpecInit /\ [][FuncSpecNext]_vars

\* response streams and request builds of the sessions, on the cache
InjectSpecNext ==
    InjectNext /\ UNCHANGED <<streamVars, execVars, respVars, parseVars, kiroVars, requestVars,
                              funcVars, pairVars, forcedVars, retryVars>>

InjectSpec == Init /\ [][InjectSpecNext]_vars

\* one caller of TranslateRequestPairE while the translator is being configured
PairSpecNext ==
    PairNext /\ UNCHANGED <<streamVars, cacheVars, execVars, respVars, parseVars, kiroVars,
                            requestVars, funcVars, injectVars, forcedVars, retryVars>>

PairSpec == Init /\ [][PairSpecNext]_vars

\* one stream translated by the legacy OpenAI-source converter
ForcedSpecNext ==
    ForcedNext /\ UNCHANGED <<streamVars, cacheVars, execVars, respVars, parseVars, kiroVars,
                              requestVars, funcVars, injectVars, pairVars, retryVars>>

ForcedSpec == Init /\ [][ForcedSpecNext]_vars

\* one ExecuteStream call up to its return
RetrySpecNext ==
    RetryNext /\ UNCHANGED <<streamVars, cacheVars, execVars, respVars, parseVars, kiroVars,
                             requestVars, funcVars, injectVars, pairVars, forcedVars>>

RetrySpec == Init /\ [][RetrySpecNext]_vars

(***************************************************************************)
(* Part I.  Properties of the stream converter.                            *)
(***************************************************************************)
\* an event that carries visible content: text, reasoning or a tool call
CarriesVisibleContent(e) ==
    \/ e.Type = EventTypeToken /\ e.Content # ""
    \/ e.Type = EventTypeReasoning /\ e.Reasoning # EmptyStr
    \/ e.Type \in {EventTypeToolCall, EventTypeToolCallDelta}

ContentPositions == { i \in 1..Len(history) : CarriesVisibleContent(history[i]) }
FinishPositions  == { i \in 1..Len(history) : history[i].Type = EventTypeFinish }
FinishChunkIdx   == { k \in 1..Len(emitted) : emitted[k].chunk.kind = "finish" }
ToolChunkIdx     == { k \in 1..Len(emitted) : emitted[k].chunk.kind = "tool_calls" }

\* C1 (as claimed): once the stream is over (finalised, or aborted by an error
\* return), if visible content was observed and the upstream signalled completion
\* at least once, exactly one finish chunk has been emitted.
C1_ExactlyOneFinish ==
    (phase # "open" /\ ContentPositions # {} /\ FinishPositions # {})
        => Cardinality(FinishChunkIdx) = 1

\* C1 (amended): at most one finish chunk is ever emitted on one state, and exactly
\* one has been emitted as soon as a completion signal was processed after the
\* first visible content by a call that returned no error (the final [DONE] of a
\* finalised stream with content is such a signal).
C1_OneFinishOnceSignalledAfterContent ==
    /\ Cardinality(FinishChunkIdx) <= 1
    /\ (\E i \in FinishPositions : \E j \in ContentPositions : j < i /\ i <= okLen)
            => Cardinality(FinishChunkIdx) = 1
    /\ (phase = "ended" /\ ContentPositions # {}) => Cardinality(FinishChunkIdx) = 1

\* a finalised stream with content whose completion was signalled twice
C1_Witness ==
    /\ phase = "ended"
    /\ \E j \in ContentPositions : Cardinality({ i \in FinishPositions : i > j }) >= 2
    /\ Cardinality(FinishChunkIdx) = 1

\* C2: no finish chunk is emitted before the first event with visible content has
\* been processed; a Finish event that arrives earlier produces no chunk at all.
C2_NoFinishBeforeContent ==
    /\ \A k \in FinishChunkIdx : \E j \in ContentPositions : j <= emitted[k].pos
    /\ \A i \in FinishPositions :
          (\A j \in ContentPositions : j > i)
              => \A k \in 1..Len(emitted) : emitted[k].pos # i

\* an early Finish was dropped, and a later one (after content) was emitted
C2_Witness ==
    /\ Len(history) >= 3
    /\ history[1].Type = EventTypeFinish
    /\ \E k \in FinishChunkIdx : emitted[k].pos > 1

\* position in the emitted stream of the first chunk of tool call c (0: none)
FirstChunkOf(c) ==
    LET ks == { k \in ToolChunkIdx : emitted[k].event.call = c }
    IN  IF ks = {} THEN 0 ELSE CHOOSE k \in ks : \A m \in ks : k <= m

\* number of tool calls that first appeared before tool call c
RankOf(c) ==
    Cardinality({ d \in CallIDs : FirstChunkOf(d) # 0 /\ FirstChunkOf(d) < FirstChunkOf(c) })

\* C3: the tool-call indices of the emitted chunks are 0,1,...,n-1 in order of
\* first appearance of the n tool calls, and every chunk of a tool call carries
\* that call's index, whatever the upstream ToolCallIndex values are.
C3_LinearToolCallIndices ==
    \A k \in ToolChunkIdx : emitted[k].chunk.index = RankOf(emitted[k].event.call)

\* C4: a finish chunk that comes from a Finish event with reason Stop, emitted
\* after a tool call was emitted on the same state, carries "tool_calls".
C4_StopBecomesToolCalls ==
    \A k \in FinishChunkIdx :
        (/\ emitted[k].event.FinishReason = FinishReasonStop
         /\ \E m \in ToolChunkIdx : m < k /\ emitted[m].event.Type = EventTypeToolCall)
            => emitted[k].chunk.finish_reason = "tool_calls"

\* a Stop finish was emitted after a tool call and reads "tool_calls"
C4_Witness ==
    \E k \in FinishChunkIdx :
        /\ emitted[k].event.FinishReason = FinishReasonStop
        /\ \E m \in ToolChunkIdx : m < k /\ emitted[m].event.Type = EventTypeToolCall
        /\ emitted[k].chunk.finish_reason = "tool_calls"

(***************************************************************************)
(* Part II.  Properties of the thought-signature cache.                    *)
(***************************************************************************)
\* a Get call of goroutine p on a non-empty session id has returned
GetReturned(p) == pc[p] = "get_done" /\ local[p].sessionID # EmptyStr

\* no store to the session of p's call has completed since p's call was issued
NoWriteSinceIssue(p) == lastWrite[local[p].sessionID].seq = local[p].seqAtIssue

\* C5: a read that is issued after an accepted write W to its session has
\* completed, that sees no later write to the session, and that returns no
\* later than W's time plus the TTL, returns W's signature.
C5_ReadReturnsLastWrite ==
    \A p \in Procs :
        ( /\ GetReturned(p)
          /\ local[p].seqAtIssue > 0
          /\ NoWriteSinceIssue(p)
          /\ local[p].returnedAt <= lastWrite[local[p].sessionID].at + thoughtSignatureTTL )
        => local[p].ret = lastWrite[local[p].sessionID].signature

\* C6: a read issued more than thoughtSignatureTTL after the most recent
\* accepted write to its session (and with no write during the read) returns
\* the empty string.
C6_ReadAfterTTLReturnsEmpty ==
    \A p \in Procs :
        ( /\ GetReturned(p)
          /\ local[p].seqAtIssue > 0
          /\ NoWriteSinceIssue(p)
          /\ local[p].issuedAt > lastWrite[local[p].sessionID].at + thoughtSignatureTTL )
        => local[p].ret = EmptyStr

\* a read that found the last write's entry more than the TTL after the write
C6_Witness ==
    \E p \in Procs :
        /\ GetReturned(p)
        /\ local[p].seqAtIssue > 0
        /\ NoWriteSinceIssue(p)
        /\ local[p].issuedAt > lastWrite[local[p].sessionID].at + thoughtSignatureTTL
        /\ local[p].entry # NoEntry
        /\ local[p].entry.signature = lastWrite[local[p].sessionID].signature
        /\ local[p].ret = EmptyStr

\* the signature is the exact sentinel or has the minimal length
SentinelOrLong(sig) ==
    sig = skipThoughtSignatureLiteral \/ Len(sig) >= minThoughtSignatureLength

StoredEntriesValid ==
    \A k \in DOMAIN bySession : SentinelOrLong(bySession[k].signature)

\* C7 as stated: every stored signature is the exact sentinel or has length
\* >= 50, and a write whose signature argument is neither is not stored.
C7_OnlySentinelOrLongWritesStored ==
    /\ StoredEntriesValid
    /\ \A p \in Procs :
          (pc[p] = "cache_done" /\ ~SentinelOrLong(local[p].raw)) => ~local[p].stored

\* C7 amended: every stored signature is the exact sentinel or has length
\* >= 50, and a write whose signature argument, trimmed of surrounding
\* whitespace, is neither is not stored; what is stored is the trimmed argument.
C7_OnlyTrimmedSentinelOrLongStored ==
    /\ StoredEntriesValid
    /\ \A p \in Procs :
          pc[p] = "cache_done" =>
            /\ ~SentinelOrLong(TrimSpace(local[p].raw)) => ~local[p].stored
            /\ local[p].stored =>
                  /\ lastWrite[local[p].sessionID].seq > 0
                  /\ local[p].signature = TrimSpace(local[p].raw)

\* a rejected write of a non-empty signature to a session that holds an entry
C7_Witness ==
    \E p \in Procs :
        /\ pc[p] = "cache_done"
        /\ ~local[p].stored
        /\ local[p].sessionID \in DOMAIN bySession
        /\ TrimSpace(local[p].raw) # EmptyStr
        /\ ~SentinelOrLong(TrimSpace(local[p].raw))

(***************************************************************************)
(* Part III.  Properties of the upstream reader goroutine.                 *)
(***************************************************************************)
\* C8: once the context is cancelled and the consumer has stopped receiving, the
\* reader goroutine eventually terminates with the upstream body and the stream
\* channel closed.
C8_ReaderTerminatesAfterCancel ==
    (cancelled /\ consumer = "stopped") ~> (rpc = "done" /\ bodyClosed /\ chanClosed)

\* positions of the error chunks among the items sent on the channel
ErrPositions == { i \in 1..Len(received) : received[i].err }

C10_LateFirstLineYieldsNoPayload ==
    firstDataAt > firstLineTimeout => \A i \in 1..Len(received) : received[i].err

\* C36: when the upstream body ended with a read error, the [DONE] finalisation
\* hands no payload chunk (hence no finish chunk) to the channel ahead of the
\* terminal error chunk.
C36_NoFinalisationPayloadOnReadError ==
    (scanErr /\ upStatus = "err" /\ ~cancelled /\ after = "scan_err")
        => \A i \in 1..Len(outbox) : outbox[i].err

(***************************************************************************)
(* Part IV.  Properties of Responses-API streaming.                        *)
(***************************************************************************)
\* positions in respOut of the chunks of a type for an output index
ChunkPositions(type, idx) ==
    { i \in 1..Len(respOut) : respOut[i].type = type /\ respOut[i].output_index = idx }

\* C11: for every output index, response.function_call_arguments.done is emitted
\* at most once, and the arguments it reports (the buffer accumulated for the
\* index when it is emitted) are non-empty.
C11_ArgumentsDoneOnceNonEmpty ==
    \A idx \in ResponsesIndices :
        LET done == ChunkPositions("response.function_call_arguments.done", idx) IN
        /\ Cardinality(done) <= 1
        /\ \A i \in done : respOut[i].arguments # EmptyStr

\* two function-call events with arguments on one index, one arguments.done
C11_Witness ==
    \E idx \in ResponsesIndices :
        /\ Cardinality(ChunkPositions("response.function_call_arguments.done", idx)) = 1
        /\ Cardinality({ i \in 1..Len(respEvents) :
                            /\ respEvents[i].Type = EventTypeToolCall
                            /\ respEvents[i].ToolCallIndex = idx
                            /\ ~respEvents[i].ToolCall.IsCustom
                            /\ respEvents[i].ToolCall.Args # EmptyStr }) >= 2

\* C12: every response.output_item.done of a function_call item comes after a
\* response.function_call_arguments.done of the same output index.
C12_ItemDoneAfterArgumentsDone ==
    \A idx \in ResponsesIndices :
        \A i \in ChunkPositions("response.output_item.done", idx) :
            respOut[i].item_type = "function_call" =>
                \E j \in ChunkPositions("response.function_call_arguments.done", idx) : j < i

\* a function call announced without arguments, completed by a later event
C12_Witness ==
    \E idx \in ResponsesIndices :
        /\ \E i \in ChunkPositions("response.output_item.done", idx) :
                respOut[i].item_type = "function_call"
        /\ respEvents[1].Type = EventTypeToolCall
        /\ respEvents[1].ToolCallIndex = idx
        /\ ~respEvents[1].ToolCall.IsCustom
        /\ respEvents[1].ToolCall.Args = EmptyStr

\* positions of the response.output_item.added chunks
AddedPositions == { i \in 1..Len(respOut) : respOut[i].type = "response.output_item.added" }

\* positions of the response.output_item.done chunks of the item announced at i
DoneOf(i) ==
    { j \in 1..Len(respOut) :
        /\ respOut[j].type = "response.output_item.done"
        /\ respOut[j].item_type = respOut[i].item_type
        /\ respOut[j].item_id = respOut[i].item_id }

\* C13: when the latest event processed is a Finish, every item announced before
\* it that had no response.output_item.done yet has exactly one among the
\* chunks of the Finish call, ahead of response.done.
C13_FinishClosesOpenItems ==
    (respEvents # << >> /\ respEvents[Len(respEvents)].Type = EventTypeFinish) =>
        \A i \in AddedPositions :
            { j \in DoneOf(i) : j < lastCall } = {} =>
                /\ Cardinality(DoneOf(i)) = 1
                /\ \A j \in DoneOf(i) :
                     \E k \in (j + 1)..Len(respOut) : respOut[k].type = "response.done"

(***************************************************************************)
(* Part V.  Properties of the chunk parsers.                               *)
(***************************************************************************)
HasFinishEvent(events) == \E i \in 1..Len(events) : events[i].Type = EventTypeFinish

\* the first candidate of the chunk, as ParseGeminiChunk reads it, carries a
\* finishReason
FirstCandidateHasFinishReason(chunk) ==
    chunk.data = "json" /\ ~chunk.envelope /\ chunk.candidates /\ chunk.hasFinish

C15_InvalidBytesYieldError ==
    (presult.parser # "none" /\ pinput.chunk.data = "invalid") =>
        (presult.err /\ presult.events = << >>)

\* C16: for a chunk whose finishReason is MALFORMED_FUNCTION_CALL the parser
\* returns a ToolCall event or a Finish event with reason Stop, and no Finish
\* event with another reason
C16_MalformedFunctionCallStopsOrCalls ==
    (/\ presult.parser = "ParseGeminiChunk"
     /\ FirstCandidateHasFinishReason(pinput.chunk)
     /\ pinput.chunk.finishReason = "MALFORMED_FUNCTION_CALL") =>
        /\ \A i \in 1..Len(presult.events) :
              presult.events[i].Type = EventTypeFinish =>
                  presult.events[i].FinishReason = FinishReasonStop
        /\ \E i \in 1..Len(presult.events) :
              \/ presult.events[i].Type = EventTypeToolCall
              \/ (presult.events[i].Type = EventTypeFinish
                  /\ presult.events[i].FinishReason = FinishReasonStop)

\* the usage of the events that carry one
UsagesOf(events) ==
    { events[i].Usage : i \in { j \in 1..Len(events) : events[j].Usage # NoUsage } }

\* C26: the PromptTokens that the Gemini parser produces from a usageMetadata
\* is promptTokenCount minus cachedContentTokenCount, floored at 0, with
\* nothing else added.
C26_PromptTokensExcludeCachedOnly ==
    (pinput.format = "gemini" /\ presult # NoResult)
        => \A u \in UsagesOf(presult.events) :
              LET meta == pinput.chunk.usage
                  diff == meta.promptTokenCount - meta.cachedContentTokenCount
              IN  u.PromptTokens = IF diff < 0 THEN 0 ELSE diff

(***************************************************************************)
(* Part V.  Properties of the Kiro stream parser.                          *)
(***************************************************************************)
\* the concatenated Reasoning text of the events
RECURSIVE ReasoningText(_)
ReasoningText(events) ==
    IF events = << >> THEN EmptyStr
    ELSE (IF Head(events).Type = EventTypeReasoning THEN Head(events).Reasoning ELSE EmptyStr)
         \o ReasoningText(Tail(events))

\* the concatenated Token text of the events
RECURSIVE TokenText(_)
TokenText(events) ==
    IF events = << >> THEN EmptyStr
    ELSE (IF Head(events).Type = EventTypeToken THEN Head(events).Content ELSE EmptyStr)
         \o TokenText(Tail(events))

\* the events of the content string given to a new state as one chunk
UnsplitEvents(content) ==
    ProcessChunk(NewKiroStreamState,
                 KiroChunk("json", << >>, "regular", content, <<"", "">>, "", EmptyStr, FALSE,
                           << >>)).events

\* C20: however a Kiro content string is split into consecutive chunks, the
\* concatenated Reasoning text and the concatenated Token text of the events
\* equal those of the unsplit string
C20_SplitPreservesText ==
    (kchunks > 0 /\ kpos = Len(kcontent)) =>
        /\ ReasoningText(kevents) = ReasoningText(UnsplitEvents(kcontent))
        /\ TokenText(kevents) = TokenText(UnsplitEvents(kcontent))

\* positions in kevents of the ToolCall events, which open a tool call
KiroToolCallPositions ==
    { i \in 1..Len(kevents) : kevents[i].Type = EventTypeToolCall }

\* C39: two different tool calls (different toolUseId) of one KiroStreamState are
\* never emitted with the same ToolCallIndex, also when the second starts before
\* the first has received its stop event.
C39_DistinctToolCallsDistinctIndices ==
    \A i, j \in KiroToolCallPositions :
        kevents[i].ToolCall.ID # kevents[j].ToolCall.ID
            => kevents[i].ToolCallIndex # kevents[j].ToolCallIndex

(***************************************************************************)
(* Part VI.  Properties of the Kiro request builder.                       *)
(***************************************************************************)
\* the emitted conversation: the history entries followed by currentMessage
Conversation ==
    kconv.history \o (IF kconv.currentMessage = NilMessage THEN << >>
                      ELSE <<kconv.currentMessage>>)

\* C17: in the emitted conversation no two adjacent entries are both
\* user-input messages and no two adjacent entries are both assistant messages
C17_RolesAlternate ==
    kconv.version # "none" =>
        \A i \in 1..(Len(Conversation) - 1) : Conversation[i].kind # Conversation[i + 1].kind

\* the positions of the user and tool messages of the request
UserLikePositions == { i \in 1..Len(kreq.Messages) : isUserLike(kreq.Messages[i].Role) }

\* C18: for a non-empty message list, currentMessage is a user-input message
\* built from the last user or tool-result turn, history holds exactly the
\* earlier turns, and no turn is both in history and in currentMessage
C18_CurrentIsLastUserTurn ==
    (kconv.version # "none" /\ kreq.Messages # << >>) =>
        /\ kconv.currentMessage.kind = "userInputMessage"
        /\ kconv.currentMessage.src # {}
        /\ kconv.currentMessage.src \subseteq UserLikePositions
        /\ \A i \in UserLikePositions : \E j \in kconv.currentMessage.src : i <= j
        /\ \A h \in 1..Len(kconv.history) :
              \A i \in kconv.history[h].src : \A j \in kconv.currentMessage.src : i < j
        /\ \A i \in 1..Len(kreq.Messages) :
              (/\ kreq.Messages[i].Role # RoleSystem
               /\ \A j \in kconv.currentMessage.src : i < j)
              => \E h \in 1..Len(kconv.history) : i \in kconv.history[h].src

\* the positions in the conversation of the user-input messages
UserInputPositions ==
    { i \in 1..Len(Conversation) : Conversation[i].kind = "userInputMessage" }

\* the positions in the conversation of the entries whose content holds the text
Carriers(text) == { i \in 1..Len(Conversation) : Index(Conversation[i].content, text) >= 0 }

\* the combined system text, with the thinking hint where the version adds it
SystemText ==
    IF kconv.version = "maps"
    THEN injectThinkingMode(kreq.Thinking, extractSystemPrompt(kreq.Messages))
    ELSE extractSystemPrompt(kreq.Messages)

\* C19: when the request has system messages, every entry is a user-input or
\* an assistant message, and the combined system text is in exactly one entry,
\* the first user-input message of the conversation, as a prefix of its content
C19_SystemTextPrefixesFirstUserMessage ==
    (/\ kconv.version # "none"
     /\ \E i \in 1..Len(kreq.Messages) : kreq.Messages[i].Role = RoleSystem) =>
        /\ \A i \in 1..Len(Conversation) :
              Conversation[i].kind \in {"userInputMessage", "assistantResponseMessage"}
        /\ UserInputPositions # {}
        /\ Carriers(SystemText) # {}
        /\ \A i \in Carriers(SystemText) :
              /\ i \in UserInputPositions
              /\ \A j \in UserInputPositions : i <= j
              /\ Index(Conversation[i].content, SystemText) = 0

(***************************************************************************)
(* Part VII.  Properties of the helper functions.                          *)
(***************************************************************************)
\* sanitizeCodexGrepArgs was applied to valid JSON arguments of a grep tool
GrepSanitised ==
    /\ fresult.applied
    /\ finput.fn = "sanitizeCodexGrepArgs"
    /\ finput.toolName \in {"grep", "ripgrep_raw_search"}
    /\ finput.args.valid

\* -C is one of the values that count as zero: 0, "0", "0.0" or ""
ZeroValue(v) == v \in {JNumber(0), JString("0"), JString("0.0"), JString("")}

\* the object without the keys
Without(obj, keys) == [k \in (DOMAIN obj) \ keys |-> obj[k]]

CountsAsZero(v) ==
    \/ v.Type = "Number" /\ v.tenths > -10 /\ v.tenths < 10
    \/ v.Type = "String" /\ v.str \in {"0", "0.0", ""}
    \/ v.Type \in {"Null", "False"}

SystemMessagesOf(req) == SelectSeq(req.Messages, LAMBDA msg : msg.Role = RoleSystem)

\* C22: for a request with system messages, the payload's instructions hold
\* the text of each of them and no item of input has the role system
C22_SystemTextInInstructions ==
    (/\ fresult.applied
     /\ finput.fn = "convertToResponsesAPIRequest"
     /\ SystemMessagesOf(finput.req) # << >>) =>
        /\ \A i \in 1..Len(SystemMessagesOf(finput.req)) :
              Index(fresult.value.instructions,
                    CombineTextParts(SystemMessagesOf(finput.req)[i])) >= 0
        /\ \A i \in 1..Len(fresult.value.input) : fresult.value.input[i].role # RoleSystem

(***************************************************************************)
(* Part VIII.  Properties of the thought-signature injection.              *)
(***************************************************************************)
\* goroutines whose request for a session was built after a stream of the
\* session had stored a signature, with no later store, inside the TTL
BuiltAfterStream ==
    { p \in Procs :
        /\ areq[p].phase = "built"
        /\ areq[p].sessionID # EmptyStr
        /\ areq[p].seqAtIssue > 0
        /\ lastWrite[areq[p].sessionID].seq = areq[p].seqAtIssue
        /\ areq[p].builtAt <= lastWrite[areq[p].sessionID].at + thoughtSignatureTTL }

\* C23: once a response stream of a session has carried a valid thought
\* signature, the next request built for the session before the TTL elapses has
\* a thoughtSignature on every functionCall part, and each functionCall part
\* that had none carries the signature cached for the session.
C23_NextRequestCarriesCachedSignature ==
    \A p \in BuiltAfterStream :
        \A i \in 1..Len(areq[p].out) : \A j \in 1..Len(areq[p].out[i]) :
            LET had == areq[p].contents[i][j]
                got  == areq[p].out[i][j]
            IN  got.functionCall =>
                  /\ got.hasSig
                  /\ ( ~had.hasSig =>
                        got.thoughtSignature = lastWrite[areq[p].sessionID].signature )

\* C24: GeminiProvider.ConvertRequest leaves the UnifiedChatRequest as it was:
\* the message list and the content parts of every message are the same after
\* the call as before, also when thinking is enabled.
C24_ConvertRequestLeavesRequestUnchanged ==
    (finput.fn = "GeminiConvertRequest" /\ fresult.applied)
        => finput.req = finput.orig

\* the names of the properties maps and required arrays of the given schema are
\* in the maps and arrays at the same place of the cleaned schema
RECURSIVE NamesPreserved(_, _)
NamesPreserved(given, cleaned) ==
    /\ "properties" \in DOMAIN given =>
          /\ "properties" \in DOMAIN cleaned
          /\ DOMAIN given.properties \subseteq DOMAIN cleaned.properties
          /\ \A k \in DOMAIN given.properties :
                NamesPreserved(given.properties[k], cleaned.properties[k])
    /\ "required" \in DOMAIN given =>
          /\ "required" \in DOMAIN cleaned
          /\ Range(given.required) \subseteq Range(cleaned.required)
    /\ "items" \in DOMAIN given =>
          /\ "items" \in DOMAIN cleaned
          /\ NamesPreserved(given.items, cleaned.items)

\* C25: CleanJsonSchemaEnhanced keeps every property name of every properties
\* map of its input in the corresponding map of its output, and every name of
\* every required array of its input in the corresponding array of its output.
C25_PropertyAndRequiredNamesPreserved ==
    (finput.fn = "CleanJsonSchemaEnhanced" /\ fresult.applied)
        => NamesPreserved(finput.schema, fresult.value)

\* an id was encoded with a signature and decoded again
RoundTripped == finput.fn = "ToolIDRoundTrip" /\ fresult.applied

FirstMarkerIsAppended(id, marker) == Index(id \o marker, marker) = Len(id)

\* the precondition under which a round trip is exact, for each format
RoundTripExact ==
    IF fresult.value.format = "sig"
    THEN /\ finput.id # EmptyStr /\ TrimSpace(finput.id) = finput.id
         /\ finput.sig # EmptyStr /\ TrimSpace(finput.sig) = finput.sig
         /\ FirstMarkerIsAppended(finput.id, sigMarker)
    ELSE /\ finput.sig # EmptyStr
         /\ FirstMarkerIsAppended(finput.id, ThoughtSignatureSeparator)

ValidityDecided == finput.fn = "HasValidThoughtSignature" /\ fresult.applied

\* C28 (as claimed): HasValidThoughtSignature(s) is true exactly when s is the
\* sentinel or has at least 50 characters, for every string s.
C28_ValidIffSentinelOrLong ==
    ValidityDecided => (fresult.value <=> SentinelOrLong(finput.signature))

\* C28 (amended): HasValidThoughtSignature(s) is true exactly when s without
\* its leading and trailing white space is the sentinel or has at least 50
\* characters.
C28_ValidIffTrimmedSentinelOrLong ==
    ValidityDecided => (fresult.value <=> SentinelOrLong(TrimSpace(finput.signature)))

\* the padded sentinel is found valid
C28_Witness ==
    /\ ValidityDecided
    /\ finput.signature = Pad(skipThoughtSignatureLiteral)
    /\ fresult.value

(***************************************************************************)
(* Part IX.  Properties of the canonical-translator switch.                *)
(***************************************************************************)
\* TranslateRequestPairE has returned both translations
PairReturned == tpc = "done" /\ ~tres.err

\* C29: the two translations of one TranslateRequestPairE call are made by the
\* same backend, both canonical or both legacy, also when
\* EnableCanonicalTranslator or SetCanonicalAdapter runs between them.
C29_PairUsesOneBackend ==
    PairReturned => tres.original.kind = tres.translated.kind

\* the provider id is one of the ids that the cases of providerIDToLabel name
HasLabel(provider) == \E row \in providerLabels : row[1] = provider

\* C30: for every provider id that providerIDToLabel maps to a label, turning
\* the label back with labelToProviderID gives the provider id.
C30_LabelRoundTrip ==
    (finput.fn = "ProviderLabelRoundTrip" /\ fresult.applied /\ HasLabel(finput.provider))
        => fresult.value.provider = finput.provider

(***************************************************************************)
(* Part I.  Properties of the tool-call headers.                           *)
(***************************************************************************)
\* chunks of the emitted stream that carry an id or a name
HeaderChunkIdx == { k \in ToolChunkIdx : emitted[k].chunk.id # "" \/ emitted[k].chunk.name # "" }

\* position in history of the first ToolCall event of tool call c (0: none)
FirstToolCallEventOf(c) ==
    LET ps == { p \in 1..Len(history) :
                  history[p].Type = EventTypeToolCall /\ history[p].call = c }
    IN  IF ps = {} THEN 0 ELSE CHOOSE p \in ps : \A q \in ps : p <= q

\* every tool call keeps the upstream ToolCallIndex of its first event
OneIndexPerCall ==
    \A p, q \in 1..Len(history) :
        (history[p].call # "" /\ history[p].call = history[q].call)
            => history[p].ToolCallIndex = history[q].ToolCallIndex

\* C31: every tool call whose first ToolCall event was handled by a call that
\* returned no error has its {id, name} header in exactly one chunk, the chunk of
\* that first ToolCall event, and no chunk of a ToolCallDelta event carries an id
\* or a name (upstream streams in which a tool call keeps its index).
C31_HeaderExactlyOnce ==
    OneIndexPerCall =>
    /\ \A c \in CallIDs :
         (FirstToolCallEventOf(c) # 0 /\ FirstToolCallEventOf(c) <= okLen) =>
            /\ Cardinality({ k \in HeaderChunkIdx : emitted[k].event.call = c }) = 1
            /\ \A k \in HeaderChunkIdx :
                 emitted[k].event.call = c =>
                    /\ emitted[k].pos = FirstToolCallEventOf(c)
                    /\ emitted[k].chunk.id = c
                    /\ emitted[k].chunk.name = NameOf[c]
    /\ \A k \in ToolChunkIdx :
         emitted[k].event.Type = EventTypeToolCallDelta => k \notin HeaderChunkIdx

(***************************************************************************)
(* Part I.  Properties of the item_id -> call_id resolution.               *)
(***************************************************************************)
\* positions of the ToolCall events that carry both an item_id and a call_id
RegisteringPositions ==
    { p \in 1..Len(history) :
        /\ history[p].Type = EventTypeToolCall
        /\ history[p].ToolCall.ItemID # "" /\ history[p].ToolCall.ID # "" }

\* the event carries item_id item and no call_id
LooksUp(e, item) ==
    e.ToolCall # NoToolCall /\ e.ToolCall.ItemID = item /\ e.ToolCall.ID = ""

\* C32: once a ToolCall event with item_id i and call_id c has been processed,
\* every later event of the stream with item_id i and no call_id is resolved to
\* c: the events already converted were, and the event the next call brings
\* will be.
C32_LaterEventsResolveToRegisteredID ==
    \A p \in RegisteringPositions :
        LET i == history[p].ToolCall.ItemID
            c == history[p].ToolCall.ID
        IN  /\ \A k \in 1..Len(emitted) :
                 (emitted[k].pos > p /\ LooksUp(emitted[k].event, i))
                    => emitted[k].resolved.ID = c
            /\ \A e \in Events :
                 LooksUp(e, i) => ResolveToolCallID(state, e).tc.ID = c

\* an argument fragment with only an item_id was resolved in a later call than
\* the one that registered the item_id (a call converts at most MaxBatch events)
C32_Witness ==
    \E p \in RegisteringPositions : \E k \in 1..Len(emitted) :
        /\ emitted[k].pos > p + MaxBatch - 1
        /\ LooksUp(emitted[k].event, history[p].ToolCall.ItemID)
        /\ emitted[k].resolved.ID = history[p].ToolCall.ID

\* positions in respOut of the response.done chunks
ResponseDonePositions == { i \in 1..Len(respOut) : respOut[i].type = "response.done" }

\* C33: on one ResponsesStreamState response.done is emitted at most once,
\* however many Finish events are processed.
C33_ResponseDoneAtMostOnce ==
    Cardinality(ResponseDonePositions) <= 1

\* C37: for every function-call output index, no
\* response.function_call_arguments.delta comes after the
\* response.function_call_arguments.done of that index.
C37_NoArgumentsDeltaAfterDone ==
    \A idx \in ResponsesIndices :
        \A i \in ChunkPositions("response.function_call_arguments.done", idx) :
            \A j \in ChunkPositions("response.function_call_arguments.delta", idx) : j < i

\* C38: two different output items of one stream (the message item, the
\* reasoning item, each function-call or custom-tool-call item) are never
\* announced with the same output_index.
C38_AnnouncedItemsHaveDistinctIndices ==
    \A i, j \in AddedPositions :
        (respOut[i].item_type # respOut[j].item_type \/ respOut[i].item_id # respOut[j].item_id)
            => respOut[i].output_index # respOut[j].output_index

(***************************************************************************)
(* Part X.  Properties of the legacy OpenAI-source converter.              *)
(***************************************************************************)
ForcedFinishChunkIdx ==
    { k \in 1..Len(forcedEmitted) : forcedEmitted[k].chunk.kind = "finish" }

\* C34: TranslateOpenAIResponseStreamForced emits at most one finish chunk per
\* OpenAIStreamState, however many Finish events the upstream chunks carry.
C34_AtMostOneFinishChunk ==
    Cardinality(ForcedFinishChunkIdx) <= 1

(***************************************************************************)
(* Part XI.  Properties of the request loop of ExecuteStream.              *)
(***************************************************************************)
\* C35: ExecuteStream issues at most attempts * len(baseURLs) upstream requests
\* before it returns, whatever the answers of the upstream are.
C35_RequestsBounded ==
    retry.pc # "idle" => retry.requests <= retry.attempts * retry.baseURLs

\* a call that went through every base URL in every attempt and returned
C35_Witness ==
    /\ retry.pc = "returned"
    /\ retry.attempts > 1 /\ retry.baseURLs > 1
    /\ retry.requests = retry.attempts * retry.baseURLs

(***************************************************************************)
(* Part VI.  Properties of the merge of consecutive messages.              *)
(***************************************************************************)
\* the tool calls of a message list, in order: the k-th tool call of the message
\* taken from position p of the request is <<p, k>> (a merged message holds the
\* ToolCalls of the first message it was merged from)
RECURSIVE ToolCallsOf(_)
ToolCallsOf(messages) ==
    IF messages = << >> THEN << >>
    ELSE LET msg == Head(messages)
             p == CHOOSE i \in msg.src : \A j \in msg.src : i <= j
         IN  [k \in 1..msg.ToolCalls |-> <<p, k>>] \o ToolCallsOf(Tail(messages))

\* the list that processMessages hands to mergeConsecutiveMessages
MergeInput == filterSystemMessages(kreq.Messages)

\* C40: merging consecutive same-role messages loses no tool call: the tool
\* calls of the merged list are those of the input list, in the same order.
C40_MergeKeepsToolCalls ==
    kconv # NoConversation =>
        ToolCallsOf(mergeConsecutiveMessages(MergeInput)) = ToolCallsOf(MergeInput)

====
